---- MODULE Spec2Model ----
(***************************************************************************)
(* Model of the study-assistant bot's profile and document store           *)
(* (UserProfileManager, DocumentManager and the command handlers that call *)
(* them in bot.py).                                                        *)
(*                                                                         *)
(* Strings are sequences of one-character strings, so that lower() and     *)
(* replace(" ", "_") are computed character by character.  A Python dict   *)
(* that is iterated (profile["subjects"]) is a sequence of <<key, value>>  *)
(* entries in insertion order; the profile table, which is only indexed,   *)
(* is a function whose domain is the set of keys present.  An optional     *)
(* value is <<>> (None / absent) or <<v>>.                                 *)
(***************************************************************************)
EXTENDS Integers, Sequences, FiniteSets, TLC

VARIABLES
    profiles,   \* UserProfileManager.profiles: the in-memory profile table
    disk,       \* the content of profiles.json
    dirs,       \* the directories that exist under base_path (paths)
    files,      \* the files that exist under base_path: path -> bytes
    ret,        \* the last manager call: operation, arguments, outcome
    faults,     \* number of I/O failures injected so far
    cmds        \* the command coroutines in flight (SpecCmd only)

vars == <<profiles, disk, dirs, files, ret, faults, cmds>>

(***************************************************************************)
(* Bounds of the model.                                                    *)
(***************************************************************************)
MaxQuestions == 1   \* questions held in memory, all banks together
MaxFaults == 1      \* I/O failures injected in one behaviour

(***************************************************************************)
(* Strings.                                                                *)
(***************************************************************************)
None == <<>>
Some(v) == <<v>>

\* str(user_id)
str(n) == CASE n = 1 -> <<"1">>
            [] n = 2 -> <<"2">>
            [] n = 3 -> <<"3">>

LowerChar(c) == CASE c = "B" -> "b"
                  [] c = "C" -> "c"
                  [] c = "D" -> "d"
                  [] c = "E" -> "e"
                  [] c = "L" -> "l"
                  [] c = "P" -> "p"
                  [] OTHER -> c

\* s.lower()
lower(s) == [i \in DOMAIN s |-> LowerChar(s[i])]

\* s.replace(old, new) for one-character old and new
replace(s, old, new) == [i \in DOMAIN s |-> IF s[i] = old THEN new ELSE s[i]]

\* the key without the replacement of spaces
SubjectKeyKeepsSpaces(subject_name) == lower(subject_name)

\* subject_name.lower().replace(" ", "_")
SubjectKey(subject_name) == replace(lower(subject_name), " ", "_")

DefaultGame == <<"p", "o", "p", "u", "l", "a", "r", " ", "v", "i", "d", "e", "o", " ", "g", "a", "m", "e", "s">>

(***************************************************************************)
(* Python dicts that are iterated: sequences of entries [k, v].            *)
(***************************************************************************)
DictKeys(d) == { d[i].k : i \in DOMAIN d }

DictGet(d, key) == d[CHOOSE i \in DOMAIN d : d[i].k = key].v

\* d[key] = value: replaces in place, or appends a new entry at the end
DictSet(d, key, value) ==
    IF key \in DictKeys(d)
    THEN [i \in DOMAIN d |-> IF d[i].k = key THEN [k |-> key, v |-> value] ELSE d[i]]
    ELSE Append(d, [k |-> key, v |-> value])

\* del d[key]
DictDel(d, key) == SelectSeq(d, LAMBDA e : e.k # key)

\* the profile table: a function over the keys present
EmptyTable == [x \in {} |-> None]

TableSet(t, key, value) == [x \in DOMAIN t \cup {key} |-> IF x = key THEN value ELSE t[x]]

(***************************************************************************)
(* The file system under base_path.  A path is the sequence of its         *)
(* components below base_path.                                             *)
(***************************************************************************)
Lectures == <<"lectures">>
PracticeTests == <<"practice_tests">>

IsPrefix(p, q) == Len(p) <= Len(q) /\ SubSeq(q, 1, Len(p)) = p

\* Path.mkdir(parents=True, exist_ok=True)
mkdir(ds, p) == ds \cup { SubSeq(p, 1, i) : i \in 1..Len(p) }

\* shutil.rmtree(p): the directories and the files below p go
rmtree_dirs(ds, p) == { d \in ds : ~IsPrefix(p, d) }

rmtree_files(fs, p) == [f \in { g \in DOMAIN fs : ~IsPrefix(p, g) } |-> fs[f]]

\* the components pathlib makes of a relative string: split at "/", with the
\* empty components and the "." components dropped ("" and "." give none)
RECURSIVE Split(_, _)
Split(s, part) ==
    IF s = <<>> THEN <<part>>
    ELSE IF Head(s) = "/" THEN <<part>> \o Split(Tail(s), <<>>)
    ELSE Split(Tail(s), Append(part, Head(s)))

IsPart(part) == part # <<>> /\ part # <<".">>

PathParts(s) == SelectSeq(Split(s, <<>>), IsPart)

\* base_path / str(user_id) / subject_key
get_subject_path(user_id, subject_key) == <<str(user_id)>> \o PathParts(subject_key)

(***************************************************************************)
(* profiles.json.  A write that fails after open() has truncated the file  *)
(* leaves a document that json.load cannot parse.                          *)
(***************************************************************************)
json_dump(table) == [valid |-> TRUE, doc |-> table]

Truncated == [valid |-> FALSE, doc |-> EmptyTable]

\* _load_profiles: any error while reading or parsing yields {}
load_profiles(content) == IF content.valid THEN content.doc ELSE EmptyTable

(***************************************************************************)
(* The manager's methods, as functions of the world w = [profiles, disk,   *)
(* dirs, files] and of io, the I/O call that fails in this call ("none":   *)
(* no failure).  Each yields the world after the call, raised (an          *)
(* exception left the method), and its return value.                       *)
(***************************************************************************)
IOFaults == {"none", "new_profile_open", "new_profile_write", "mkdir_lectures",
             "mkdir_practice_tests", "rmtree_before", "rmtree_midway",
             "save_open", "save_write", "attachment_save"}

NoError == "no"
OSError == "OSError"
KeyError == "KeyError"

\* _save_profiles that writes nothing
save_profiles_skipped(w, how) == [w |-> w, raised |-> NoError]

\* _save_profiles; how: "ok", "open" (open() fails, file untouched) or
\* "write" (json.dump fails after open() truncated the file)
save_profiles(w, how) ==
    CASE how = "open" -> [w |-> w, raised |-> OSError]
      [] how = "write" -> [w |-> [w EXCEPT !.disk = Truncated], raised |-> OSError]
      [] OTHER -> [w |-> [w EXCEPT !.disk = json_dump(w.profiles)], raised |-> NoError]

\* the outcome of the method's closing _save_profiles() under io
SaveHow(io) == CASE io = "save_open" -> "open"
                 [] io = "save_write" -> "write"
                 [] OTHER -> "ok"

NewProfile == [subjects |-> <<>>, active_subject |-> None]

get_user_profile(w, user_id, io) ==
    LET user_id_str == str(user_id) IN
    IF user_id_str \notin DOMAIN w.profiles
    THEN save_profiles([w EXCEPT !.profiles = TableSet(w.profiles, user_id_str, NewProfile)],
                       CASE io = "new_profile_open" -> "open"
                         [] io = "new_profile_write" -> "write"
                         [] OTHER -> "ok")
    ELSE [w |-> w, raised |-> NoError]


\* a method's outcome
Return(w, value) == [w |-> w, raised |-> NoError, value |-> value]

Raise(w, error) == [w |-> w, raised |-> error, value |-> None]

\* the outcome of a method that ends with _save_profiles() and returns value
SaveAndReturn(w, io, value) ==
    LET s == save_profiles(w, SaveHow(io)) IN
    IF s.raised # NoError THEN Raise(s.w, s.raised) ELSE Return(s.w, value)

SetProfile(w, user_id, profile) == [w EXCEPT !.profiles[str(user_id)] = profile]

\* create_subject that inserts the record before it makes the folders
create_subject_inserts_first(w, user_id, subject_name, game, io) ==
    LET g == get_user_profile(w, user_id, io) IN
    IF g.raised # NoError THEN Raise(g.w, g.raised) ELSE
    LET profile == g.w.profiles[str(user_id)]
        subject_key == SubjectKey(subject_name)
        subject_path == <<str(user_id), subject_key>>
        d1 == mkdir(g.w.dirs, Append(subject_path, Lectures))
        d2 == mkdir(d1, Append(subject_path, PracticeTests))
        info == [name |-> subject_name, game |-> game, created |-> TRUE,
                 question_bank |-> <<>>, key |-> None]
        active1 == IF profile.active_subject = None THEN Some(subject_key)
                   ELSE profile.active_subject
        w0 == SetProfile(g.w, user_id,
                         [subjects |-> DictSet(profile.subjects, subject_key, info),
                          active_subject |-> active1])
    IN  IF subject_key \in DictKeys(profile.subjects) THEN Return(g.w, FALSE)
        ELSE IF io = "mkdir_lectures" THEN Raise(w0, OSError)
        ELSE IF io = "mkdir_practice_tests" THEN Raise([w0 EXCEPT !.dirs = d1], OSError)
        ELSE SaveAndReturn([w0 EXCEPT !.dirs = d2], io, TRUE)

\* create_subject without the test for an existing key
create_subject_overwrites(w, user_id, subject_name, game, io) ==
    LET g == get_user_profile(w, user_id, io) IN
    IF g.raised # NoError THEN Raise(g.w, g.raised) ELSE
    LET profile == g.w.profiles[str(user_id)]
        subject_key == SubjectKey(subject_name)
        subject_path == <<str(user_id), subject_key>>
        d2 == mkdir(mkdir(g.w.dirs, Append(subject_path, Lectures)),
                    Append(subject_path, PracticeTests))
        info == [name |-> subject_name, game |-> game, created |-> TRUE,
                 question_bank |-> <<>>, key |-> None]
        active1 == IF profile.active_subject = None THEN Some(subject_key)
                   ELSE profile.active_subject
    IN  SaveAndReturn(SetProfile([g.w EXCEPT !.dirs = d2], user_id,
                          [subjects |-> DictSet(profile.subjects, subject_key, info),
                           active_subject |-> active1]),
                      io, TRUE)

create_subject(w, user_id, subject_name, game, io) ==
    LET g == get_user_profile(w, user_id, io) IN
    IF g.raised # NoError THEN Raise(g.w, g.raised) ELSE
    LET profile == g.w.profiles[str(user_id)]
        subject_key == SubjectKey(subject_name)
        subject_path == <<str(user_id), subject_key>>
        d1 == mkdir(g.w.dirs, Append(subject_path, Lectures))
        d2 == mkdir(d1, Append(subject_path, PracticeTests))
        info == [name |-> subject_name, game |-> game, created |-> TRUE,
                 question_bank |-> <<>>, key |-> None]
        subjects1 == DictSet(profile.subjects, subject_key, info)
        active1 == IF profile.active_subject = None THEN Some(subject_key)
                   ELSE profile.active_subject
        w1 == SetProfile([g.w EXCEPT !.dirs = d2], user_id,
                         [subjects |-> subjects1, active_subject |-> active1])
    IN  IF subject_key \in DictKeys(profile.subjects) THEN Return(g.w, FALSE)
        ELSE IF io = "mkdir_lectures" THEN Raise(g.w, OSError)
        ELSE IF io = "mkdir_practice_tests" THEN Raise([g.w EXCEPT !.dirs = d1], OSError)
        ELSE SaveAndReturn(w1, io, TRUE)

\* set_active_subject that looks the display name up as it was typed
set_active_subject_unnormalized(w, user_id, subject_name, io) ==
    LET g == get_user_profile(w, user_id, io) IN
    IF g.raised # NoError THEN Raise(g.w, g.raised) ELSE
    LET profile == g.w.profiles[str(user_id)]
    IN  IF subject_name \notin DictKeys(profile.subjects) THEN Return(g.w, FALSE)
        ELSE SaveAndReturn(SetProfile(g.w, user_id,
                               [profile EXCEPT !.active_subject = Some(subject_name)]),
                           io, TRUE)

set_active_subject(w, user_id, subject_name, io) ==
    LET g == get_user_profile(w, user_id, io) IN
    IF g.raised # NoError THEN Raise(g.w, g.raised) ELSE
    LET profile == g.w.profiles[str(user_id)]
        subject_key == SubjectKey(subject_name)
    IN  IF subject_key \notin DictKeys(profile.subjects) THEN Return(g.w, FALSE)
        ELSE SaveAndReturn(SetProfile(g.w, user_id,
                               [profile EXCEPT !.active_subject = Some(subject_key)]),
                           io, TRUE)

\* writes the "key" entry into the subject's stored record and returns that record
get_active_subject(w, user_id, io) ==
    LET g == get_user_profile(w, user_id, io) IN
    IF g.raised # NoError THEN Raise(g.w, g.raised) ELSE
    LET profile == g.w.profiles[str(user_id)] IN
    IF profile.active_subject = None THEN Return(g.w, None)
    ELSE LET subject_key == profile.active_subject[1] IN
         IF subject_key \notin DictKeys(profile.subjects) THEN Raise(g.w, KeyError)
         ELSE LET subject_info == [DictGet(profile.subjects, subject_key)
                                      EXCEPT !.key = Some(subject_key)]
              IN  Return(SetProfile(g.w, user_id,
                             [profile EXCEPT !.subjects =
                                 DictSet(profile.subjects, subject_key, subject_info)]),
                         Some(subject_info))

set_subject_game(w, user_id, subject_key, game, io) ==
    LET g == get_user_profile(w, user_id, io) IN
    IF g.raised # NoError THEN Raise(g.w, g.raised) ELSE
    LET profile == g.w.profiles[str(user_id)] IN
    IF subject_key \in DictKeys(profile.subjects)
    THEN LET info == [DictGet(profile.subjects, subject_key) EXCEPT !.game = game] IN
         SaveAndReturn(SetProfile(g.w, user_id,
                           [profile EXCEPT !.subjects = DictSet(profile.subjects, subject_key, info)]),
                       io, None)
    ELSE Return(g.w, None)

add_question_to_bank(w, user_id, subject_key, question, io) ==
    LET g == get_user_profile(w, user_id, io) IN
    IF g.raised # NoError THEN Raise(g.w, g.raised) ELSE
    LET profile == g.w.profiles[str(user_id)] IN
    IF subject_key \in DictKeys(profile.subjects)
    THEN LET old == DictGet(profile.subjects, subject_key)
             info == [old EXCEPT !.question_bank = Append(old.question_bank, question)]
         IN  SaveAndReturn(SetProfile(g.w, user_id,
                               [profile EXCEPT !.subjects = DictSet(profile.subjects, subject_key, info)]),
                           io, TRUE)
    ELSE Return(g.w, FALSE)

get_question_bank(w, user_id, subject_key, io) ==
    LET g == get_user_profile(w, user_id, io) IN
    IF g.raised # NoError THEN Raise(g.w, g.raised) ELSE
    LET profile == g.w.profiles[str(user_id)] IN
    IF subject_key \in DictKeys(profile.subjects)
    THEN Return(g.w, DictGet(profile.subjects, subject_key).question_bank)
    ELSE Return(g.w, <<>>)

\* a pop that removes the last question whatever the index
pop_last(questions, index) == SubSeq(questions, 1, Len(questions) - 1)

\* questions.pop(index), index counted from 0
pop(questions, index) ==
    [i \in 1..(Len(questions) - 1) |-> IF i <= index THEN questions[i] ELSE questions[i + 1]]

\* remove_question_from_bank without the test 0 <= index: questions.pop(index)
\* counts a negative index from the end and raises IndexError outside the list
remove_question_from_bank_unchecked(w, user_id, subject_key, index, io) ==
    LET g == get_user_profile(w, user_id, io) IN
    IF g.raised # NoError THEN Raise(g.w, g.raised) ELSE
    LET profile == g.w.profiles[str(user_id)] IN
    IF subject_key \in DictKeys(profile.subjects)
    THEN LET old == DictGet(profile.subjects, subject_key)
             questions == old.question_bank
             at == IF index < 0 THEN index + Len(questions) ELSE index
             info == [old EXCEPT !.question_bank = pop(questions, at)]
         IN  IF index < Len(questions)
             THEN IF at < 0 THEN Raise(g.w, "IndexError")
                  ELSE SaveAndReturn(SetProfile(g.w, user_id,
                                         [profile EXCEPT !.subjects =
                                             DictSet(profile.subjects, subject_key, info)]),
                                     io, TRUE)
             ELSE Return(g.w, FALSE)
    ELSE Return(g.w, FALSE)

remove_question_from_bank(w, user_id, subject_key, index, io) ==
    LET g == get_user_profile(w, user_id, io) IN
    IF g.raised # NoError THEN Raise(g.w, g.raised) ELSE
    LET profile == g.w.profiles[str(user_id)] IN
    IF subject_key \in DictKeys(profile.subjects)
    THEN LET old == DictGet(profile.subjects, subject_key)
             questions == old.question_bank
             info == [old EXCEPT !.question_bank = pop(questions, index)]
         IN  IF 0 <= index /\ index < Len(questions)
             THEN SaveAndReturn(SetProfile(g.w, user_id,
                                    [profile EXCEPT !.subjects = DictSet(profile.subjects, subject_key, info)]),
                                io, TRUE)
             ELSE Return(g.w, FALSE)
    ELSE Return(g.w, FALSE)

list_subjects(w, user_id, io) ==
    LET g == get_user_profile(w, user_id, io) IN
    IF g.raised # NoError THEN Raise(g.w, g.raised) ELSE
    LET profile == g.w.profiles[str(user_id)] IN
    Return(g.w, [i \in DOMAIN profile.subjects |->
                    [key |-> profile.subjects[i].k,
                     name |-> profile.subjects[i].v.name,
                     game |-> profile.subjects[i].v.game,
                     active |-> (Some(profile.subjects[i].k) = profile.active_subject)]])

\* subject_path.exists()
exists(w, p) == p \in w.dirs \/ p \in DOMAIN w.files

\* delete_subject without the rmtree of the subject's folder
delete_subject_keeps_files(w, user_id, subject_name, io) ==
    LET g == get_user_profile(w, user_id, io) IN
    IF g.raised # NoError THEN Raise(g.w, g.raised) ELSE
    LET profile == g.w.profiles[str(user_id)]
        subject_key == SubjectKey(subject_name)
        subjects1 == DictDel(profile.subjects, subject_key)
        active1 == IF profile.active_subject = Some(subject_key)
                   THEN (IF subjects1 # <<>> THEN Some(subjects1[1].k) ELSE None)
                   ELSE profile.active_subject
    IN  IF subject_key \notin DictKeys(profile.subjects) THEN Return(g.w, FALSE)
        ELSE SaveAndReturn(SetProfile(g.w, user_id,
                               [subjects |-> subjects1, active_subject |-> active1]),
                           io, TRUE)

\* delete_subject that makes the last remaining subject the active one
delete_subject_picks_last(w, user_id, subject_name, io) ==
    LET g == get_user_profile(w, user_id, io) IN
    IF g.raised # NoError THEN Raise(g.w, g.raised) ELSE
    LET profile == g.w.profiles[str(user_id)]
        subject_key == SubjectKey(subject_name)
        subject_path == get_subject_path(user_id, subject_key)
        w1 == [g.w EXCEPT !.dirs = rmtree_dirs(g.w.dirs, subject_path),
                          !.files = rmtree_files(g.w.files, subject_path)]
        subjects1 == DictDel(profile.subjects, subject_key)
        active1 == IF profile.active_subject = Some(subject_key)
                   THEN (IF subjects1 # <<>> THEN Some(subjects1[Len(subjects1)].k) ELSE None)
                   ELSE profile.active_subject
    IN  IF subject_key \notin DictKeys(profile.subjects) THEN Return(g.w, FALSE)
        ELSE SaveAndReturn(SetProfile(w1, user_id,
                               [subjects |-> subjects1, active_subject |-> active1]),
                           io, TRUE)

\* delete_subject that leaves no subject active after deleting the active one
delete_subject_clears_active(w, user_id, subject_name, io) ==
    LET g == get_user_profile(w, user_id, io) IN
    IF g.raised # NoError THEN Raise(g.w, g.raised) ELSE
    LET profile == g.w.profiles[str(user_id)]
        subject_key == SubjectKey(subject_name)
        subject_path == get_subject_path(user_id, subject_key)
        w1 == [g.w EXCEPT !.dirs = rmtree_dirs(g.w.dirs, subject_path),
                          !.files = rmtree_files(g.w.files, subject_path)]
        active1 == IF profile.active_subject = Some(subject_key)
                   THEN None ELSE profile.active_subject
    IN  IF subject_key \notin DictKeys(profile.subjects) THEN Return(g.w, FALSE)
        ELSE SaveAndReturn(SetProfile(w1, user_id,
                               [subjects |-> DictDel(profile.subjects, subject_key),
                                active_subject |-> active1]),
                           io, TRUE)

\* delete_subject without the reset of active_subject
delete_subject_keeps_active(w, user_id, subject_name, io) ==
    LET g == get_user_profile(w, user_id, io) IN
    IF g.raised # NoError THEN Raise(g.w, g.raised) ELSE
    LET profile == g.w.profiles[str(user_id)]
        subject_key == SubjectKey(subject_name)
        subject_path == get_subject_path(user_id, subject_key)
        w1 == [g.w EXCEPT !.dirs = rmtree_dirs(g.w.dirs, subject_path),
                          !.files = rmtree_files(g.w.files, subject_path)]
    IN  IF subject_key \notin DictKeys(profile.subjects) THEN Return(g.w, FALSE)
        ELSE SaveAndReturn(SetProfile(w1, user_id,
                               [profile EXCEPT !.subjects = DictDel(profile.subjects, subject_key)]),
                           io, TRUE)

delete_subject(w, user_id, subject_name, io) ==
    LET g == get_user_profile(w, user_id, io) IN
    IF g.raised # NoError THEN Raise(g.w, g.raised) ELSE
    LET profile == g.w.profiles[str(user_id)]
        subject_key == SubjectKey(subject_name)
        subject_path == get_subject_path(user_id, subject_key)
        midway == Append(subject_path, Lectures)
        w1 == IF exists(g.w, subject_path)
              THEN [g.w EXCEPT !.dirs = rmtree_dirs(g.w.dirs, subject_path),
                               !.files = rmtree_files(g.w.files, subject_path)]
              ELSE g.w
        subjects1 == DictDel(profile.subjects, subject_key)
        active1 == IF profile.active_subject = Some(subject_key)
                   THEN (IF subjects1 # <<>> THEN Some(subjects1[1].k) ELSE None)
                   ELSE profile.active_subject
    IN  IF subject_key \notin DictKeys(profile.subjects) THEN Return(g.w, FALSE)
        ELSE IF exists(g.w, subject_path) /\ io = "rmtree_before" THEN Raise(g.w, OSError)
        ELSE IF exists(g.w, subject_path) /\ io = "rmtree_midway"
             THEN Raise([g.w EXCEPT !.dirs = rmtree_dirs(g.w.dirs, midway),
                                    !.files = rmtree_files(g.w.files, midway)], OSError)
        ELSE SaveAndReturn(SetProfile(w1, user_id,
                               [subjects |-> subjects1, active_subject |-> active1]),
                           io, TRUE)

(***************************************************************************)
(* DocumentManager and AITeacher.get_subject_game.  A file name is the     *)
(* sequence <<stem, suffix>>; a file's bytes are [readable, pages, good].  *)
(***************************************************************************)
Pdf == ".pdf"
Txt == ".txt"

\* filename.endswith(suffix)
endswith(filename, suffix) == filename # <<>> /\ filename[Len(filename)] = suffix

\* Path.stem
stem(filename) == SubSeq(filename, 1, Len(filename) - 1)

RECURSIVE JoinPages(_)
JoinPages(pages) ==
    IF pages = <<>> THEN <<>> ELSE <<pages[1], "\n">> \o JoinPages(Tail(pages))

\* extract_text_from_pdf: a read error is caught and the text so far returned;
\* bytes.good is the number of pages extracted before the error
extract_text_from_pdf(bytes) ==
    IF bytes.readable THEN JoinPages(bytes.pages)
    ELSE JoinPages(SubSeq(bytes.pages, 1, bytes.good))

\* a glob that finds the .pdf files of every folder
glob_pdf_everywhere(w, folder_path) ==
    { f \in DOMAIN w.files : endswith(f[Len(f)], Pdf) }

\* folder_path.glob("*.pdf"): the .pdf files directly in the folder
glob_pdf(w, folder_path) ==
    { f \in DOMAIN w.files : /\ Len(f) = Len(folder_path) + 1
                             /\ IsPrefix(folder_path, f)
                             /\ endswith(f[Len(f)], Pdf) }

\* "lectures" if folder_type == "lecture" else "practice_tests"
FolderOf(folder_type) == IF folder_type = "lecture" THEN Lectures ELSE PracticeTests

\* f"[SOURCE: {filename}]\n{content}"
Annotated(filename, content) == <<"[SOURCE: ">> \o filename \o <<"]", "\n">> \o content

\* the mapping stem -> annotated text of the .pdf files of one folder
ContentWithNames(w, folder_path) ==
    LET found == glob_pdf(w, folder_path)
        stems == { stem(f[Len(f)]) : f \in found }
    IN  [n \in stems |->
            LET f == CHOOSE g \in found : stem(g[Len(g)]) = n
            IN  Annotated(n, extract_text_from_pdf(w.files[f]))]

all_with_names(w, user_id, folder, io) ==
    LET a == get_active_subject(w, user_id, io) IN
    IF a.raised # NoError THEN Raise(a.w, a.raised)
    ELSE IF a.value = None THEN Return(a.w, EmptyTable)
    ELSE Return(a.w, ContentWithNames(a.w,
                Append(get_subject_path(user_id, a.value[1].key[1]), folder)))

get_all_lectures_with_names(w, user_id, io) == all_with_names(w, user_id, Lectures, io)

get_all_practice_tests_with_names(w, user_id, io) ==
    all_with_names(w, user_id, PracticeTests, io)

list_files(w, user_id, folder_type, io) ==
    LET a == get_active_subject(w, user_id, io) IN
    IF a.raised # NoError THEN Raise(a.w, a.raised)
    ELSE IF a.value = None THEN Return(a.w, {})
    ELSE LET folder_path == Append(get_subject_path(user_id, a.value[1].key[1]),
                                   FolderOf(folder_type))
         IN  Return(a.w, { stem(f[Len(f)]) : f \in glob_pdf(a.w, folder_path) })

\* save_attachment, run without interruption.  attachment.save fails when io
\* says so or when the target folder is missing; the error is caught.
save_attachment(w, attachment, user_id, folder_type, io) ==
    IF ~endswith(attachment.filename, Pdf) THEN Return(w, FALSE) ELSE
    LET a == get_active_subject(w, user_id, io) IN
    IF a.raised # NoError THEN Raise(a.w, a.raised)
    ELSE IF a.value = None THEN Return(a.w, FALSE)
    ELSE LET target_path == Append(get_subject_path(user_id, a.value[1].key[1]),
                                   FolderOf(folder_type))
             file_path == Append(target_path, attachment.filename)
         IN  IF io = "attachment_save" \/ target_path \notin a.w.dirs
             THEN Return(a.w, FALSE)
             ELSE Return([a.w EXCEPT !.files =
                             TableSet(a.w.files, file_path, attachment.bytes)], TRUE)

\* save_attachment up to its await: the file to write, None when the method
\* has returned False before
save_attachment_begin(w, attachment, user_id, folder_type, io) ==
    IF ~endswith(attachment.filename, Pdf) THEN [w |-> w, raised |-> NoError, file_path |-> None]
    ELSE
    LET a == get_active_subject(w, user_id, io) IN
    IF a.raised # NoError THEN [w |-> a.w, raised |-> a.raised, file_path |-> None]
    ELSE IF a.value = None THEN [w |-> a.w, raised |-> NoError, file_path |-> None]
    ELSE LET target_path == Append(get_subject_path(user_id, a.value[1].key[1]),
                                   FolderOf(folder_type))
         IN  [w |-> a.w, raised |-> NoError,
              file_path |-> Some(Append(target_path, attachment.filename))]

\* the folder a file is in
parent(file_path) == SubSeq(file_path, 1, Len(file_path) - 1)

\* an attachment.save that empties the folder before it writes the file
attachment_save_clears_folder(w, file_path, bytes, io) ==
    IF io = "attachment_save" \/ parent(file_path) \notin w.dirs
    THEN Return(w, FALSE)
    ELSE Return([w EXCEPT !.files = TableSet(rmtree_files(w.files, parent(file_path)),
                                             file_path, bytes)], TRUE)

\* await attachment.save(file_path) and the return of save_attachment: the
\* download fails when io says so, open() fails when the folder is missing;
\* both errors are caught
attachment_save(w, file_path, bytes, io) ==
    IF io = "attachment_save" \/ parent(file_path) \notin w.dirs
    THEN Return(w, FALSE)
    ELSE Return([w EXCEPT !.files = TableSet(w.files, file_path, bytes)], TRUE)

get_subject_game(w, user_id, io) ==
    LET a == get_active_subject(w, user_id, io) IN
    IF a.raised # NoError THEN Raise(a.w, a.raised)
    ELSE IF a.value = None THEN Return(a.w, DefaultGame)
    ELSE Return(a.w, a.value[1].game)

(***************************************************************************)
(* The manager's methods called one at a time, each run to its end, by     *)
(* callers that draw their arguments from the sets of an environment E;    *)
(* at most MaxFaults calls are hit by an I/O failure.  A process restart   *)
(* reloads the table from profiles.json.                                   *)
(***************************************************************************)
World == [profiles |-> profiles, disk |-> disk, dirs |-> dirs, files |-> files]

RECURSIVE SumLen(_)
SumLen(seqOfSeqs) ==
    IF seqOfSeqs = <<>> THEN 0 ELSE Len(seqOfSeqs[1]) + SumLen(Tail(seqOfSeqs))

RECURSIVE SumOver(_, _)
SumOver(f, S) ==
    IF S = {} THEN 0 ELSE LET x == CHOOSE y \in S : TRUE IN f[x] + SumOver(f, S \ {x})

NumQuestions ==
    SumOver([u \in DOMAIN profiles |->
                SumLen([i \in DOMAIN profiles[u].subjects |->
                           profiles[u].subjects[i].v.question_bank])],
            DOMAIN profiles)

Init ==
    /\ profiles = EmptyTable
    /\ disk = json_dump(EmptyTable)
    /\ dirs = {}
    /\ files = EmptyTable
    /\ ret = [op |-> "init", user_id |-> 0, arg |-> None, io |-> "none",
              raised |-> NoError, value |-> None]
    /\ faults = 0
    /\ cmds = <<>>

Differ(o, clean) ==
    \/ o.raised # clean.raised
    \/ o.w # clean.w
    \/ o.raised = NoError /\ o.value # clean.value

\* the I/O calls each method makes
ProfileIO == {"new_profile_open", "new_profile_write"}
SaveIO == {"save_open", "save_write"}
IOCalls(op) ==
    CASE op = "create_subject" ->
            ProfileIO \cup {"mkdir_lectures", "mkdir_practice_tests"} \cup SaveIO
      [] op = "delete_subject" -> ProfileIO \cup {"rmtree_before", "rmtree_midway"} \cup SaveIO
      [] op \in {"set_active_subject", "set_subject_game", "add_question_to_bank",
                 "remove_question_from_bank"} -> ProfileIO \cup SaveIO
      [] op = "save_attachment" -> ProfileIO \cup {"attachment_save"}
      [] OTHER -> ProfileIO

\* one call of a method: Outcome[io] is its outcome when the I/O call io fails
\* ("none": no failure); a failure is injected only where it changes the outcome
Call(E, op, user_id, arg, Outcome) ==
    \E clean \in {Outcome["none"]} :
    \E io \in E.io \cap ({"none"} \cup (IF faults < MaxFaults THEN IOCalls(op) ELSE {})) :
    \E o \in {IF io = "none" THEN clean ELSE Outcome[io]} :
        /\ io # "none" => Differ(o, clean)
        /\ profiles' = o.w.profiles
        /\ disk' = o.w.disk
        /\ dirs' = o.w.dirs
        /\ files' = o.w.files
        /\ ret' = [op |-> op, user_id |-> user_id, arg |-> arg, io |-> io,
                   raised |-> o.raised, value |-> o.value]
        /\ faults' = IF io = "none" THEN faults ELSE faults + 1
        /\ UNCHANGED cmds

CreateSubject(E) ==
    \E c \in E.callers, g \in E.games :
        Call(E, "create_subject", c.user_id, c.subject_name,
             [io \in IOFaults |-> create_subject(World, c.user_id, c.subject_name, g, io)])

SetActiveSubject(E) ==
    \E c \in E.callers :
        Call(E, "set_active_subject", c.user_id, c.subject_name,
             [io \in IOFaults |-> set_active_subject(World, c.user_id, c.subject_name, io)])

GetActiveSubject(E) ==
    \E c \in E.callers :
        Call(E, "get_active_subject", c.user_id, None,
             [io \in IOFaults |-> get_active_subject(World, c.user_id, io)])

SetSubjectGame(E) ==
    \E c \in E.callers, g \in E.games :
        Call(E, "set_subject_game", c.user_id, SubjectKey(c.subject_name),
             [io \in IOFaults |-> set_subject_game(World, c.user_id, SubjectKey(c.subject_name), g, io)])

AddQuestionToBank(E) ==
    \E c \in E.callers, q \in E.questions :
        /\ NumQuestions < MaxQuestions
        /\ Call(E, "add_question_to_bank", c.user_id, SubjectKey(c.subject_name),
                [io \in IOFaults |-> add_question_to_bank(World, c.user_id,
                                                 SubjectKey(c.subject_name), q, io)])

GetQuestionBank(E) ==
    \E c \in E.callers :
        Call(E, "get_question_bank", c.user_id, SubjectKey(c.subject_name),
             [io \in IOFaults |-> get_question_bank(World, c.user_id, SubjectKey(c.subject_name), io)])

RemoveQuestionFromBank(E) ==
    \E c \in E.callers, index \in -1..MaxQuestions :
        Call(E, "remove_question_from_bank", c.user_id, <<SubjectKey(c.subject_name), index>>,
             [io \in IOFaults |-> remove_question_from_bank(World, c.user_id,
                                                   SubjectKey(c.subject_name), index, io)])

ListSubjects(E) ==
    \E c \in E.callers :
        Call(E, "list_subjects", c.user_id, None,
             [io \in IOFaults |-> list_subjects(World, c.user_id, io)])

DeleteSubject(E) ==
    \E c \in E.callers :
        Call(E, "delete_subject", c.user_id, c.subject_name,
             [io \in IOFaults |-> delete_subject(World, c.user_id, c.subject_name, io)])

ListFiles(E) ==
    \E c \in E.callers, t \in {"lecture", "practice"} :
        Call(E, "list_files", c.user_id, t,
             [io \in IOFaults |-> list_files(World, c.user_id, t, io)])

GetAllLecturesWithNames(E) ==
    \E c \in E.callers :
        Call(E, "get_all_lectures_with_names", c.user_id, None,
             [io \in IOFaults |-> get_all_lectures_with_names(World, c.user_id, io)])

GetAllPracticeTestsWithNames(E) ==
    \E c \in E.callers :
        Call(E, "get_all_practice_tests_with_names", c.user_id, None,
             [io \in IOFaults |-> get_all_practice_tests_with_names(World, c.user_id, io)])

GetSubjectGame(E) ==
    \E c \in E.callers :
        Call(E, "get_subject_game", c.user_id, None,
             [io \in IOFaults |-> get_subject_game(World, c.user_id, io)])

\* the process stops and starts again: __init__ reloads the table
Restart ==
    /\ profiles' = load_profiles(disk)
    /\ ret' = [op |-> "restart", user_id |-> 0, arg |-> None, io |-> "none",
               raised |-> NoError, value |-> None]
    /\ UNCHANGED <<disk, dirs, files, faults, cmds>>

Mutation(E) ==
    \/ CreateSubject(E)
    \/ SetActiveSubject(E)
    \/ SetSubjectGame(E)
    \/ AddQuestionToBank(E)
    \/ RemoveQuestionFromBank(E)
    \/ DeleteSubject(E)

Query(E) ==
    \/ GetActiveSubject(E)
    \/ GetQuestionBank(E)
    \/ ListSubjects(E)
    \/ ListFiles(E)
    \/ GetAllLecturesWithNames(E)
    \/ GetAllPracticeTestsWithNames(E)
    \/ GetSubjectGame(E)

Caller(user_id, subject_name) == [user_id |-> user_id, subject_name |-> subject_name]

(***************************************************************************)
(* Spec: the mutating methods, without I/O failures.  User 1 names         *)
(* subjects "B", "b" and "c d"; user 2 names "b".                          *)
(***************************************************************************)
SpecEnv ==
    [callers |-> { Caller(1, <<"B">>), Caller(1, <<"b">>), Caller(1, <<"c", " ", "d">>),
                   Caller(2, <<"b">>) },
     games |-> { DefaultGame, <<"P">> },
     questions |-> { <<"q">> },
     io |-> {"none"}]

Next == Mutation(SpecEnv) \/ Restart

Spec == Init /\ [][Next]_vars

(***************************************************************************)
(* SpecFault: the mutating methods for one user, with I/O failures.  Every *)
(* subject has the game "P".                                               *)
(***************************************************************************)
FaultEnv ==
    [callers |-> { Caller(1, <<"B">>), Caller(1, <<"c", " ", "d">>) },
     games |-> { <<"P">> },
     questions |-> { <<"q">> },
     io |-> IOFaults]

NextFault == Mutation(FaultEnv) \/ Restart

SpecFault == Init /\ [][NextFault]_vars

(***************************************************************************)
(* SpecQuery: every method, queries included, without I/O failures.        *)
(***************************************************************************)
QueryEnv ==
    [callers |-> { Caller(1, <<"B">>), Caller(1, <<"c", " ", "d">>) },
     games |-> { DefaultGame, <<"P">> },
     questions |-> { <<"q">> },
     io |-> {"none"}]

NextQuery == Mutation(QueryEnv) \/ Query(QueryEnv) \/ Restart

SpecQuery == Init /\ [][NextQuery]_vars

(***************************************************************************)
(* SpecOrder: one user creating, switching between and deleting three      *)
(* subjects.                                                               *)
(***************************************************************************)
OrderEnv ==
    [callers |-> { Caller(1, <<"B">>), Caller(1, <<"c", " ", "d">>), Caller(1, <<"e">>) },
     games |-> { DefaultGame },
     questions |-> {},
     io |-> {"none"}]

NextOrder == CreateSubject(OrderEnv) \/ SetActiveSubject(OrderEnv) \/ DeleteSubject(OrderEnv)

SpecOrder == Init /\ [][NextOrder]_vars

(***************************************************************************)
(* The commands.  A command is a coroutine on the bot's one event loop: it *)
(* runs alone from one await to the next, and other commands run while it  *)
(* is suspended in an await.  The manager's methods are plain functions    *)
(* without an await inside.  Each operator below is the code of a command  *)
(* between two awaits, applied to the world w for the command c; it yields *)
(* the world after it and the reply the command goes on to send.           *)
(***************************************************************************)
Yes == <<"y", "e", "s">>
No == <<"n", "o">>

\* !newsubject up to its ctx.send
new_subject(w, c, io) ==
    IF c.subject_name = <<>> /\ (c.game = <<>> \/ c.game = DefaultGame)
    THEN [w |-> w, reply |-> "usage"]
    ELSE LET subject_name == IF c.subject_name = <<>> THEN c.game ELSE c.subject_name
             game == IF c.subject_name = <<>> THEN DefaultGame ELSE c.game
             o == create_subject(w, c.user_id, subject_name, game, io)
         IN  [w |-> o.w,
              reply |-> IF o.raised # NoError THEN "error"
                        ELSE IF o.value THEN "created" ELSE "exists"]

\* !deletesubject from the return of bot.wait_for to its last ctx.send;
\* c.content is the text of the message received, None when wait_for timed out
delete_subject_command(w, c, io) ==
    IF c.content = None THEN [w |-> w, reply |-> "timed_out"]
    ELSE IF lower(c.content[1]) = Yes
    THEN LET o == delete_subject(w, c.user_id, c.subject_name, io) IN
         [w |-> o.w,
          reply |-> IF o.raised # NoError THEN "timed_out"
                    ELSE IF o.value THEN "deleted" ELSE "not_found"]
    ELSE [w |-> w, reply |-> "cancelled"]

\* !addq up to its ctx.send
add_question(w, c, io) ==
    LET a == get_active_subject(w, c.user_id, io) IN
    IF a.raised # NoError THEN [w |-> a.w, reply |-> "error"]
    ELSE IF a.value = None THEN [w |-> a.w, reply |-> "no_active"]
    ELSE LET o == add_question_to_bank(a.w, c.user_id, a.value[1].key[1], c.question, io) IN
         IF o.raised # NoError THEN [w |-> o.w, reply |-> "error"]
         ELSE IF o.value
         THEN LET q == get_question_bank(o.w, c.user_id, a.value[1].key[1], io) IN
              [w |-> q.w, reply |-> IF q.raised # NoError THEN "error" ELSE "added"]
         ELSE [w |-> o.w, reply |-> "failed"]

\* the code of command c that runs against the manager
Body(w, c) ==
    CASE c.name = "newsubject" -> new_subject(w, c, "none")
      [] c.name = "deletesubject" -> delete_subject_command(w, c, "none")
      [] c.name = "addq" -> add_question(w, c, "none")

Command(name, user_id, game, subject_name, question) ==
    [name |-> name, user_id |-> user_id, game |-> game, subject_name |-> subject_name,
     question |-> question, content |-> None, pc |-> "start", reply |-> "pending"]

NumCmds == 3        \* commands invoked in one behaviour

\* a message with a command arrives: its coroutine is scheduled
Invoke(commands) ==
    \E c \in commands :
        /\ Len(cmds) < NumCmds
        /\ cmds' = Append(cmds, c)
        /\ UNCHANGED <<profiles, disk, dirs, files, ret, faults>>

\* command i runs Body and suspends in the ctx.send of its reply
RunBody(i, c) ==
    LET b == Body(World, c) IN
        /\ profiles' = b.w.profiles /\ disk' = b.w.disk
        /\ dirs' = b.w.dirs /\ files' = b.w.files
        /\ cmds' = [cmds EXCEPT ![i] = [c EXCEPT !.pc = "send", !.reply = b.reply]]
        /\ UNCHANGED <<ret, faults>>

NewSubjectCommand(i) ==
    /\ cmds[i].name = "newsubject" /\ cmds[i].pc = "start"
    /\ RunBody(i, cmds[i])

AddQuestionCommand(i) ==
    /\ cmds[i].name = "addq" /\ cmds[i].pc = "start"
    /\ RunBody(i, cmds[i])

\* !deletesubject sends its question and suspends in bot.wait_for
DeleteSubjectPrompt(i) ==
    /\ cmds[i].name = "deletesubject" /\ cmds[i].pc = "start"
    /\ cmds' = [cmds EXCEPT ![i].pc = "wait"]
    /\ UNCHANGED <<profiles, disk, dirs, files, ret, faults>>

\* bot.wait_for returns a message of the author, or times out
DeleteSubjectAnswer(i, contents) ==
    /\ cmds[i].name = "deletesubject" /\ cmds[i].pc = "wait"
    /\ \E content \in contents : RunBody(i, [cmds[i] EXCEPT !.content = content])

\* the ctx.send of the reply completes and the command ends
Send(i) ==
    /\ cmds[i].pc = "send"
    /\ cmds' = [cmds EXCEPT ![i].pc = "done"]
    /\ UNCHANGED <<profiles, disk, dirs, files, ret, faults>>

(***************************************************************************)
(* SpecCmd: user 1 sends !newsubject B, !newsubject P c d, !deletesubject  *)
(* B and !addq q, in any number and order, without I/O failures.           *)
(***************************************************************************)
CmdMenu ==
    { Command("newsubject", 1, <<"B">>, <<>>, <<>>),
      Command("newsubject", 1, <<"P">>, <<"c", " ", "d">>, <<>>),
      Command("deletesubject", 1, <<>>, <<"B">>, <<>>),
      Command("addq", 1, <<>>, <<>>, <<"q">>) }

Contents == { None, Some(Yes), Some(No) }

NextCmd ==
    \/ Invoke(CmdMenu)
    \/ \E i \in DOMAIN cmds : NewSubjectCommand(i)
    \/ \E i \in DOMAIN cmds : AddQuestionCommand(i)
    \/ \E i \in DOMAIN cmds : DeleteSubjectPrompt(i)
    \/ \E i \in DOMAIN cmds : DeleteSubjectAnswer(i, Contents)
    \/ \E i \in DOMAIN cmds : Send(i)

SpecCmd == Init /\ [][NextCmd]_vars

\* !removeq up to its ctx.send; question_num is the number the user typed
remove_question(w, user_id, question_num, io) ==
    LET a == get_active_subject(w, user_id, io) IN
    IF a.raised # NoError THEN [w |-> a.w, reply |-> "error"]
    ELSE IF a.value = None THEN [w |-> a.w, reply |-> "no_active"]
    ELSE LET o == remove_question_from_bank(a.w, user_id, a.value[1].key[1],
                                            question_num - 1, io) IN
         IF o.raised # NoError THEN [w |-> o.w, reply |-> "error"]
         ELSE IF o.value
         THEN LET q == get_question_bank(o.w, user_id, a.value[1].key[1], io) IN
              [w |-> q.w, reply |-> IF q.raised # NoError THEN "error" ELSE "removed"]
         ELSE [w |-> o.w, reply |-> "not_found"]

\* an exception that leaves a command reaches discord.py as this error
CommandInvokeError == "CommandInvokeError"

\* a command that runs to its reply without an await in between: b is the
\* outcome of its code on the current world
CommandCall(op, user_id, arg, b) ==
    /\ profiles' = b.w.profiles
    /\ disk' = b.w.disk
    /\ dirs' = b.w.dirs
    /\ files' = b.w.files
    /\ ret' = [op |-> op, user_id |-> user_id, arg |-> arg, io |-> "none",
               raised |-> IF b.reply = "error" THEN CommandInvokeError ELSE NoError,
               value |-> b.reply]
    /\ UNCHANGED <<faults, cmds>>

MaxBank == 3        \* questions held in all banks together, in SpecBank

AddQuestion(E) ==
    \E c \in E.callers, q \in E.questions :
        /\ NumQuestions < MaxBank
        /\ CommandCall("addq", c.user_id, q,
                       add_question(World, Command("addq", c.user_id, <<>>, <<>>, q), "none"))

RemoveQuestion(E) ==
    \E c \in E.callers, question_num \in -1..(MaxBank + 1) :
        CommandCall("removeq", c.user_id, question_num,
                    remove_question(World, c.user_id, question_num, "none"))

(***************************************************************************)
(* SpecBank: one user with the subjects "B" and "c d" adds the questions   *)
(* "q" and "r" to the active subject and removes questions by number.      *)
(***************************************************************************)
BankEnv ==
    [callers |-> { Caller(1, <<"B">>), Caller(1, <<"c", " ", "d">>) },
     games |-> { DefaultGame },
     questions |-> { <<"q">>, <<"r">> },
     io |-> {"none"}]

NextBank ==
    \/ CreateSubject(BankEnv)
    \/ SetActiveSubject(BankEnv)
    \/ AddQuestion(BankEnv)
    \/ RemoveQuestion(BankEnv)

SpecBank == Init /\ [][NextBank]_vars

(***************************************************************************)
(* Uploads.  save_attachment is a coroutine: it runs to its await of       *)
(* attachment.save with the file path it has computed, other calls run     *)
(* while the download is under way, and then the file is written.  An      *)
(* upload under way is a record in cmds; the next upload is sent when the  *)
(* one before has ended.                                                   *)
(***************************************************************************)
MaxFiles == 2       \* files stored

Attachment(filename, bytes) == [filename |-> filename, bytes |-> bytes]

Upload(user_id, attachment, folder_type, file_path) ==
    [name |-> "save_attachment", user_id |-> user_id, attachment |-> attachment,
     folder_type |-> folder_type, file_path |-> file_path, pc |-> "save"]

RemoveAt(seq, i) == SubSeq(seq, 1, i - 1) \o SubSeq(seq, i + 1, Len(seq))

\* save_attachment is called and returns False at once or suspends in its await
SaveAttachmentBegin(E) ==
    \E c \in E.callers, attachment \in E.attachments, folder_type \in E.folder_types :
        LET b == save_attachment_begin(World, attachment, c.user_id, folder_type, "none")
            u == Upload(c.user_id, attachment, folder_type, b.file_path)
        IN  /\ profiles' = b.w.profiles
            /\ disk' = b.w.disk
            /\ dirs' = b.w.dirs
            /\ files' = b.w.files
            /\ IF b.file_path = None
               THEN /\ cmds' = cmds
                    /\ ret' = [op |-> "save_attachment", user_id |-> c.user_id, arg |-> u,
                               io |-> "none", raised |-> b.raised, value |-> FALSE]
               ELSE /\ Len(cmds) < E.inflight
                    /\ Cardinality(DOMAIN files) < MaxFiles
                    /\ cmds' = Append(cmds, u)
                    /\ ret' = [op |-> "save_attachment_await", user_id |-> c.user_id,
                               arg |-> None, io |-> "none", raised |-> NoError, value |-> None]
            /\ UNCHANGED faults

\* the await of an upload under way ends and save_attachment returns
SaveAttachmentEnd(E) ==
    \E i \in DOMAIN cmds :
    \E io \in E.io \cap ({"none"} \cup (IF faults < MaxFaults THEN {"attachment_save"} ELSE {})) :
        LET u == cmds[i]
            o == attachment_save(World, u.file_path[1], u.attachment.bytes, io)
        IN  /\ u.name = "save_attachment" /\ u.pc = "save"
            /\ profiles' = o.w.profiles
            /\ disk' = o.w.disk
            /\ dirs' = o.w.dirs
            /\ files' = o.w.files
            /\ cmds' = RemoveAt(cmds, i)
            /\ ret' = [op |-> "save_attachment", user_id |-> u.user_id, arg |-> u,
                       io |-> io, raised |-> o.raised, value |-> o.value]
            /\ faults' = IF io = "none" THEN faults ELSE faults + 1

(***************************************************************************)
(* SpecDocs: one user with the subjects "B" and "c d" uploads notes.pdf    *)
(* (two contents), cell.pdf (unreadable after its first page) and          *)
(* notes.txt as lectures and practice tests, and creates and switches      *)
(* subjects, without I/O failures.                                         *)
(***************************************************************************)
NotesPdf == <<"notes", ".pdf">>
CellPdf == <<"cell", ".pdf">>
NotesTxt == <<"notes", ".txt">>

Bytes1 == [readable |-> TRUE, pages |-> <<"x">>, good |-> 1]
Bytes2 == [readable |-> TRUE, pages |-> <<"y">>, good |-> 1]
Corrupt == [readable |-> FALSE, pages |-> <<"z", "w">>, good |-> 1]

DocEnv ==
    [callers |-> { Caller(1, <<"B">>), Caller(1, <<"c", " ", "d">>) },
     games |-> { DefaultGame },
     questions |-> {},
     io |-> {"none"},
     attachments |-> { Attachment(NotesPdf, Bytes1), Attachment(NotesPdf, Bytes2),
                       Attachment(CellPdf, Corrupt), Attachment(NotesTxt, Bytes1) },
     folder_types |-> {"lecture", "practice"},
     inflight |-> 1]

NextDocs ==
    \/ CreateSubject(DocEnv)
    \/ SetActiveSubject(DocEnv)
    \/ SaveAttachmentBegin(DocEnv)
    \/ SaveAttachmentEnd(DocEnv)

SpecDocs == Init /\ [][NextDocs]_vars

(***************************************************************************)
(* SpecPurge: one user creates, switches and deletes the subjects "B" and  *)
(* "c d", adds the question "q" and uploads notes.pdf; a subject may be    *)
(* deleted, and created again, while an upload to it is under way.         *)
(***************************************************************************)
PurgeEnv ==
    [callers |-> { Caller(1, <<"B">>), Caller(1, <<"c", " ", "d">>) },
     games |-> { DefaultGame },
     questions |-> { <<"q">> },
     io |-> {"none"},
     attachments |-> { Attachment(NotesPdf, Bytes1) },
     folder_types |-> {"lecture", "practice"},
     inflight |-> 1]

NextPurge ==
    \/ CreateSubject(PurgeEnv)
    \/ SetActiveSubject(PurgeEnv)
    \/ DeleteSubject(PurgeEnv)
    \/ AddQuestion(PurgeEnv)
    \/ SaveAttachmentBegin(PurgeEnv)
    \/ SaveAttachmentEnd(PurgeEnv)

SpecPurge == Init /\ [][NextPurge]_vars

(***************************************************************************)
(* !upload.  The command reads the active subject and tests its arguments, *)
(* awaits the sending of "Uploading ...", and then calls save_attachment,  *)
(* which reads the active subject again.                                   *)
(***************************************************************************)
LectureWord == <<"l", "e", "c", "t", "u", "r", "e">>
PracticeWord == <<"p", "r", "a", "c", "t", "i", "c", "e">>

\* !upload up to its first ctx.send; attachments are those of the message
upload_document(w, user_id, doc_type, attachments, io) ==
    LET a == get_active_subject(w, user_id, io) IN
    IF a.raised # NoError THEN [w |-> a.w, reply |-> "error", subject |-> None]
    ELSE IF a.value = None THEN [w |-> a.w, reply |-> "no_active", subject |-> None]
    ELSE IF lower(doc_type) \notin {LectureWord, PracticeWord}
    THEN [w |-> a.w, reply |-> "bad_type", subject |-> a.value]
    ELSE IF attachments = <<>>
    THEN [w |-> a.w, reply |-> "no_attachment", subject |-> a.value]
    ELSE IF ~endswith(attachments[1].filename, Pdf)
    THEN [w |-> a.w, reply |-> "not_pdf", subject |-> a.value]
    ELSE [w |-> a.w, reply |-> "uploading", subject |-> a.value]

\* doc_type.lower(), as save_attachment receives it
FolderType(doc_type) == IF lower(doc_type) = LectureWord THEN "lecture" ELSE "practice"

UploadDocument(E) ==
    \E c \in E.callers, doc_type \in E.doc_types, attachments \in E.messages :
        LET b == upload_document(World, c.user_id, doc_type, attachments, "none") IN
            /\ profiles' = b.w.profiles
            /\ disk' = b.w.disk
            /\ dirs' = b.w.dirs
            /\ files' = b.w.files
            /\ ret' = [op |-> "upload", user_id |-> c.user_id,
                       arg |-> [doc_type |-> doc_type, attachments |-> attachments],
                       io |-> "none",
                       raised |-> IF b.reply = "error" THEN CommandInvokeError ELSE NoError,
                       value |-> b.reply]
            /\ IF b.reply = "uploading"
               THEN /\ cmds = <<>>
                    /\ Cardinality(DOMAIN files) < MaxFiles
                    /\ cmds' = Append(cmds, [name |-> "upload", user_id |-> c.user_id,
                                             attachment |-> attachments[1],
                                             folder_type |-> FolderType(doc_type),
                                             subject |-> b.subject[1].name,
                                             pc |-> "announce"])
               ELSE cmds' = cmds
            /\ UNCHANGED faults

\* "Uploading ..." has been sent: the command calls save_attachment, which
\* returns False at once or suspends in its await
UploadAnnounced ==
    \E i \in DOMAIN cmds :
        LET u == cmds[i]
            b == save_attachment_begin(World, u.attachment, u.user_id, u.folder_type, "none")
        IN  /\ u.name = "upload" /\ u.pc = "announce"
            /\ profiles' = b.w.profiles
            /\ disk' = b.w.disk
            /\ dirs' = b.w.dirs
            /\ files' = b.w.files
            /\ IF b.file_path = None
               THEN /\ cmds' = RemoveAt(cmds, i)
                    /\ ret' = [op |-> "save_attachment", user_id |-> u.user_id,
                               arg |-> Upload(u.user_id, u.attachment, u.folder_type, None),
                               io |-> "none", raised |-> b.raised, value |-> FALSE]
               ELSE /\ cmds' = [cmds EXCEPT ![i] =
                                   Upload(u.user_id, u.attachment, u.folder_type, b.file_path)]
                    /\ ret' = [op |-> "save_attachment_await", user_id |-> u.user_id,
                               arg |-> None, io |-> "none", raised |-> NoError, value |-> None]
            /\ UNCHANGED faults

(***************************************************************************)
(* SpecUpload: one user with the subjects "B" and "c d" sends !upload with *)
(* notes.pdf, notes.txt or no attachment, as Lecture, practice or quiz,    *)
(* and creates, switches and deletes subjects meanwhile.                   *)
(***************************************************************************)
UploadEnv ==
    [callers |-> { Caller(1, <<"B">>), Caller(1, <<"c", " ", "d">>) },
     games |-> { DefaultGame },
     questions |-> {},
     io |-> {"none"},
     doc_types |-> { <<"L", "e", "c", "t", "u", "r", "e">>, PracticeWord,
                     <<"q", "u", "i", "z">> },
     messages |-> { <<>>, <<Attachment(NotesPdf, Bytes1)>>,
                    <<Attachment(NotesTxt, Bytes2)>> }]

NextUpload ==
    \/ CreateSubject(UploadEnv)
    \/ SetActiveSubject(UploadEnv)
    \/ DeleteSubject(UploadEnv)
    \/ UploadDocument(UploadEnv)
    \/ UploadAnnounced
    \/ SaveAttachmentEnd(UploadEnv)

SpecUpload == Init /\ [][NextUpload]_vars

(***************************************************************************)
(* SpecNames: one user creates, switches to and deletes subjects named     *)
(* "c d", "C d", "c<TAB>d" and "B".                                        *)
(***************************************************************************)
NamesEnv ==
    [callers |-> { Caller(1, <<"c", " ", "d">>), Caller(1, <<"C", " ", "d">>),
                   Caller(1, <<"c", "\t", "d">>), Caller(1, <<"B">>) },
     games |-> { DefaultGame },
     questions |-> {},
     io |-> {"none"}]

NextNames == CreateSubject(NamesEnv) \/ SetActiveSubject(NamesEnv) \/ DeleteSubject(NamesEnv)

SpecNames == Init /\ [][NextNames]_vars

(***************************************************************************)
(* SpecWriters: one user with the subject "B" uploads notes.pdf with two   *)
(* contents as a lecture or a practice test; two calls of save_attachment  *)
(* may be suspended in their await at the same time.                       *)
(***************************************************************************)
WritersEnv ==
    [callers |-> { Caller(1, <<"B">>) },
     games |-> { DefaultGame },
     questions |-> {},
     io |-> {"none"},
     attachments |-> { Attachment(NotesPdf, Bytes1), Attachment(NotesPdf, Bytes2) },
     folder_types |-> {"lecture", "practice"},
     inflight |-> 2]

NextWriters ==
    \/ CreateSubject(WritersEnv)
    \/ SaveAttachmentBegin(WritersEnv)
    \/ SaveAttachmentEnd(WritersEnv)

SpecWriters == Init /\ [][NextWriters]_vars

(***************************************************************************)
(* SpecPaths: user 1 creates, switches to and deletes subjects named "B",  *)
(* "." and "B/e" and uploads notes.pdf as a lecture of the active one.     *)
(***************************************************************************)
PathEnv ==
    [callers |-> { Caller(1, <<"B">>), Caller(1, <<".">>), Caller(1, <<"B", "/", "e">>) },
     games |-> { DefaultGame },
     questions |-> {},
     io |-> {"none"},
     attachments |-> { Attachment(NotesPdf, Bytes1) },
     folder_types |-> {"lecture"},
     inflight |-> 1]

NextPaths ==
    \/ CreateSubject(PathEnv)
    \/ SetActiveSubject(PathEnv)
    \/ DeleteSubject(PathEnv)
    \/ SaveAttachmentBegin(PathEnv)
    \/ SaveAttachmentEnd(PathEnv)

SpecPaths == Init /\ [][NextPaths]_vars

(***************************************************************************)
(* SpecConfirm: user 1 creates the subjects "B" and "c d" and sends        *)
(* !deletesubject B; the delete_subject the command calls may meet an I/O  *)
(* failure.                                                                *)
(***************************************************************************)
\* bot.wait_for returns a message of the author, or times out; the call of
\* delete_subject that follows a "yes" runs under io
DeleteSubjectAnswerIO(i, contents, ios) ==
    \E content \in contents :
    \E io \in ios \cap ({"none"} \cup (IF faults < MaxFaults THEN IOFaults ELSE {})) :
        LET c == [cmds[i] EXCEPT !.content = content]
            b == delete_subject_command(World, c, io)
        IN  /\ cmds[i].name = "deletesubject" /\ cmds[i].pc = "wait"
            /\ io = "none" \/ b # delete_subject_command(World, c, "none")
            /\ profiles' = b.w.profiles /\ disk' = b.w.disk
            /\ dirs' = b.w.dirs /\ files' = b.w.files
            /\ cmds' = [cmds EXCEPT ![i] = [c EXCEPT !.pc = "send", !.reply = b.reply]]
            /\ faults' = IF io = "none" THEN faults ELSE faults + 1
            /\ UNCHANGED ret

ConfirmEnv ==
    [callers |-> { Caller(1, <<"B">>), Caller(1, <<"c", " ", "d">>) },
     games |-> { DefaultGame },
     questions |-> {},
     io |-> {"none"}]

ConfirmMenu == { Command("deletesubject", 1, <<>>, <<"B">>, <<>>) }

ConfirmIO == {"none", "rmtree_midway", "save_write"}

NextConfirm ==
    \/ CreateSubject(ConfirmEnv)
    \/ Invoke(ConfirmMenu)
    \/ \E i \in DOMAIN cmds : DeleteSubjectPrompt(i)
    \/ \E i \in DOMAIN cmds : DeleteSubjectAnswerIO(i, Contents, ConfirmIO)
    \/ \E i \in DOMAIN cmds : Send(i)

SpecConfirm == Init /\ [][NextConfirm]_vars

(***************************************************************************)
(* Views of the state used by the properties.                              *)
(***************************************************************************)
\* the subjects and the active subject a table holds for a user ({} and None
\* when it holds no profile for the user)
SubjectsIn(table, user_id) ==
    IF str(user_id) \in DOMAIN table THEN table[str(user_id)].subjects ELSE <<>>

ActiveIn(table, user_id) ==
    IF str(user_id) \in DOMAIN table THEN table[str(user_id)].active_subject ELSE None

AllUsers == {1, 2}

MutatingOps == {"create_subject", "set_active_subject", "set_subject_game",
                "add_question_to_bank", "remove_question_from_bank", "delete_subject"}

QueryOps == {"get_active_subject", "get_question_bank", "list_subjects", "list_files",
             "get_all_lectures_with_names", "get_all_practice_tests_with_names",
             "get_subject_game"}

(***************************************************************************)
(* C1.  Each user's active_subject is None or a key of that user's         *)
(* subjects, in every reachable state.                                     *)
(***************************************************************************)
C1_ActiveSubjectIsASubject ==
    \A u \in AllUsers :
        \/ ActiveIn(profiles, u) = None
        \/ ActiveIn(profiles, u)[1] \in DictKeys(SubjectsIn(profiles, u))

\* the active subject was deleted while another subject remained
C1_Witness ==
    /\ ret.op = "delete_subject" /\ ret.raised = NoError /\ ret.value = TRUE
    /\ ActiveIn(profiles, ret.user_id) # None
    /\ Len(SubjectsIn(profiles, 2)) = 1

(***************************************************************************)
(* C6.  create_subject with a display name whose normalized key the user   *)
(* already has returns False (already exists) and changes nothing: the     *)
(* existing record's name, game and question bank, active_subject, the     *)
(* folders and profiles.json stay as they were.                            *)
(***************************************************************************)
C6_CreateExistingChangesNothing ==
    [][ (/\ ret'.op = "create_subject"
         /\ SubjectKey(ret'.arg) \in DictKeys(SubjectsIn(profiles, ret'.user_id)))
        => /\ ret'.raised = NoError
           /\ ret'.value = FALSE
           /\ profiles' = profiles
           /\ dirs' = dirs
           /\ files' = files
           /\ disk' = disk ]_vars

\* "B" was refused because "b" exists, with a game and a question of its own
C6_Witness ==
    /\ ret.op = "create_subject" /\ ret.raised = NoError /\ ret.value = FALSE
    /\ ret.arg = <<"B">>
    /\ LET info == DictGet(SubjectsIn(profiles, ret.user_id), <<"b">>) IN
        /\ info.name = <<"b">>
        /\ info.game = <<"P">>
        /\ info.question_bank # <<>>

(***************************************************************************)
(* C7.  After create_subject(display_name) has created the first subject   *)
(* of a user, get_active_subject returns that subject: its name is         *)
(* display_name and its key is display_name lowercased with spaces         *)
(* replaced by underscores; it is active without any switch.               *)
(***************************************************************************)
\* the normalized form of the display names used, written out
ExpectedKey(display_name) ==
    CASE display_name = <<"B">> -> <<"b">>
      [] display_name = <<"b">> -> <<"b">>
      [] display_name = <<"c", " ", "d">> -> <<"c", "_", "d">>
      [] display_name = <<"e">> -> <<"e">>

C7_FirstSubjectIsActive ==
    (/\ ret.op = "create_subject" /\ ret.raised = NoError /\ ret.value = TRUE
     /\ Len(SubjectsIn(profiles, ret.user_id)) = 1)
    => LET a == get_active_subject(World, ret.user_id, "none") IN
        /\ a.raised = NoError
        /\ a.value # None
        /\ a.value[1].key = Some(ExpectedKey(ret.arg))
        /\ a.value[1].name = ret.arg
        /\ DictKeys(SubjectsIn(profiles, ret.user_id)) = {ExpectedKey(ret.arg)}
        /\ ActiveIn(profiles, ret.user_id) = Some(ExpectedKey(ret.arg))

\* "c d" was created as the first subject of user 1
C7_Witness ==
    /\ ret.op = "create_subject" /\ ret.raised = NoError /\ ret.value = TRUE
    /\ ret.arg = <<"c", " ", "d">>
    /\ Len(SubjectsIn(profiles, ret.user_id)) = 1

(***************************************************************************)
(* C8.  When delete_subject removes the active subject and others remain,  *)
(* active_subject becomes the key of the remaining subject that was        *)
(* created first (the first in insertion order), which is one of the       *)
(* remaining subjects; when it removes the only subject, active_subject    *)
(* becomes None.                                                           *)
(***************************************************************************)
C8_DeleteActiveReassigns ==
    [][ (/\ ret'.op = "delete_subject" /\ ret'.raised = NoError /\ ret'.value = TRUE
         /\ ActiveIn(profiles, ret'.user_id) = Some(SubjectKey(ret'.arg)))
        => LET before == SubjectsIn(profiles, ret'.user_id)
               others == SelectSeq(before, LAMBDA e : e.k # SubjectKey(ret'.arg))
               after == SubjectsIn(profiles', ret'.user_id)
           IN  /\ after = others
               /\ IF others = <<>>
                  THEN ActiveIn(profiles', ret'.user_id) = None
                  ELSE /\ ActiveIn(profiles', ret'.user_id) = Some(others[1].k)
                       /\ others[1].k \in DictKeys(after) ]_vars

\* the active subject was deleted with two others left, and the one created
\* first of the two is active
C8_Witness ==
    /\ ret.op = "delete_subject" /\ ret.raised = NoError /\ ret.value = TRUE
    /\ Len(SubjectsIn(profiles, 1)) = 2
    /\ SubjectKey(ret.arg) = <<"b">>
    /\ ActiveIn(profiles, 1) = Some(SubjectsIn(profiles, 1)[1].k)
    /\ SubjectsIn(profiles, 1)[1].k = <<"e">>

\* the only subject was deleted
C8_WitnessLast ==
    /\ ret.op = "delete_subject" /\ ret.raised = NoError /\ ret.value = TRUE
    /\ str(1) \in DOMAIN profiles
    /\ SubjectsIn(profiles, 1) = <<>>
    /\ ActiveIn(profiles, 1) = None

(***************************************************************************)
(* C3 (as stated).  Between operations, a subject key is in a user's       *)
(* subjects exactly when both {user_id}/{subject_key}/lectures and         *)
(* {user_id}/{subject_key}/practice_tests exist, also after an operation   *)
(* that ended in a folder or persistence failure.                          *)
(***************************************************************************)
AllKeys == {<<"b">>, <<"c", "_", "d">>, <<"e">>}

HasFolders(user_id, subject_key) ==
    /\ Append(get_subject_path(user_id, subject_key), Lectures) \in dirs
    /\ Append(get_subject_path(user_id, subject_key), PracticeTests) \in dirs

C3_MetadataAndFoldersAgree ==
    \A user_id \in AllUsers, subject_key \in AllKeys :
        subject_key \in DictKeys(SubjectsIn(profiles, user_id))
            <=> HasFolders(user_id, subject_key)

(***************************************************************************)
(* C4.  When a mutating method returns success (True; for                  *)
(* set_subject_game, which returns None, when the key it was given is a    *)
(* subject), profiles.json holds exactly the in-memory table, so a reload  *)
(* yields that table.                                                      *)
(***************************************************************************)
Succeeded ==
    /\ ret.op \in MutatingOps
    /\ ret.raised = NoError
    /\ IF ret.op = "set_subject_game"
       THEN ret.arg \in DictKeys(SubjectsIn(profiles, ret.user_id))
       ELSE ret.value = TRUE

C4_SuccessIsDurable ==
    Succeeded => /\ disk.valid
                 /\ load_profiles(disk) = profiles

\* a mutation succeeded after an earlier call had left profiles.json cut short
\* or behind the table
C4_Witness ==
    /\ Succeeded
    /\ ret.op = "set_subject_game"
    /\ ret.io = "none"
    /\ faults = 1
    /\ Len(SubjectsIn(profiles, ret.user_id)) = 2

(***************************************************************************)
(* C5 (as stated).  When the write of profiles.json fails in a mutating    *)
(* method, the error reaches the caller and the in-memory table is what it *)
(* was before the call.                                                    *)
(***************************************************************************)
C5_FailedSaveLeavesMemory ==
    [][ (/\ ret'.op \in MutatingOps
         /\ ret'.io \in {"save_open", "save_write", "new_profile_open", "new_profile_write"})
        => /\ ret'.raised = OSError
           /\ profiles' = profiles ]_vars

(***************************************************************************)
(* C9.  When a mkdir of create_subject fails, the error leaves the method, *)
(* the user's subjects and active_subject are as before in memory, and the *)
(* user's subjects in profiles.json are as before: the new subject's       *)
(* record is stored nowhere.                                               *)
(***************************************************************************)
C9_FailedMkdirInsertsNothing ==
    [][ (/\ ret'.op = "create_subject"
         /\ ret'.io \in {"mkdir_lectures", "mkdir_practice_tests"})
        => /\ ret'.raised = OSError
           /\ SubjectsIn(profiles', ret'.user_id) = SubjectsIn(profiles, ret'.user_id)
           /\ ActiveIn(profiles', ret'.user_id) = ActiveIn(profiles, ret'.user_id)
           /\ SubjectKey(ret'.arg) \notin DictKeys(SubjectsIn(profiles', ret'.user_id))
           /\ SubjectsIn(load_profiles(disk'), ret'.user_id)
                  = SubjectsIn(load_profiles(disk), ret'.user_id) ]_vars

\* the second mkdir failed for "c d" while "b" was the user's active subject
C9_Witness ==
    /\ ret.op = "create_subject" /\ ret.io = "mkdir_practice_tests"
    /\ ret.raised = OSError
    /\ ret.arg = <<"c", " ", "d">>
    /\ ActiveIn(profiles, 1) = Some(<<"b">>)
    /\ Append(get_subject_path(1, <<"c", "_", "d">>), Lectures) \in dirs

(***************************************************************************)
(* C10 (as stated).  A query method called for a user who has a profile    *)
(* leaves the in-memory table and profiles.json as they were.              *)
(***************************************************************************)
C10_QueriesDoNotMutate ==
    [][ (/\ ret'.op \in QueryOps
         /\ str(ret'.user_id) \in DOMAIN profiles)
        => /\ profiles' = profiles
           /\ disk' = disk ]_vars

(***************************************************************************)
(* C2.  The commands of one user that have run against the manager,        *)
(* however their coroutines interleaved, leave the world that running      *)
(* them one after the other in some order leaves, each with the reply it   *)
(* got.  While no subject has been deleted, of the !newsubject commands    *)
(* for one key exactly one is told "created" and the others "exists", and  *)
(* the subject is in list_subjects: two for different subjects both        *)
(* succeed, two for the same subject give one success and one refusal.     *)
(***************************************************************************)
InitWorld == [profiles |-> EmptyTable, disk |-> json_dump(EmptyTable),
              dirs |-> {}, files |-> EmptyTable]

Effected == {i \in DOMAIN cmds : cmds[i].reply # "pending"}

Orders(S) ==
    {order \in [1..Cardinality(S) -> S] :
        \A i, j \in 1..Cardinality(S) : i # j => order[i] # order[j]}

\* running the commands in the given order, from w, gives each its reply
RECURSIVE RunInOrder(_, _)
RunInOrder(order, w) ==
    IF order = <<>> THEN [ok |-> TRUE, w |-> w]
    ELSE LET b == Body(w, cmds[Head(order)]) IN
         IF b.reply # cmds[Head(order)].reply THEN [ok |-> FALSE, w |-> w]
         ELSE RunInOrder(Tail(order), b.w)

Linearizable ==
    \E order \in Orders(Effected) :
        LET r == RunInOrder(order, InitWorld) IN r.ok /\ r.w = World

\* the subject a !newsubject command names, after the swap of its arguments
NameOf(c) == IF c.subject_name = <<>> THEN c.game ELSE c.subject_name

CreatesOf(subject_key) ==
    {i \in Effected : /\ cmds[i].name = "newsubject"
                      /\ SubjectKey(NameOf(cmds[i])) = subject_key}

Listed(user_id) ==
    LET l == list_subjects(World, user_id, "none").value IN {l[i].key : i \in DOMAIN l}

OneCreatePerKey ==
    (\A i \in DOMAIN cmds : cmds[i].reply # "deleted")
    => \A subject_key \in AllKeys :
          CreatesOf(subject_key) # {}
          => /\ Cardinality({i \in CreatesOf(subject_key) : cmds[i].reply = "created"}) = 1
             /\ \A i \in CreatesOf(subject_key) : cmds[i].reply \in {"created", "exists"}
             /\ subject_key \in Listed(1)

C2_CommandsLinearizable == Linearizable /\ OneCreatePerKey

\* two !newsubject B: the one sent second ran first and was told "created",
\* the one sent first was told "exists"
C2_Witness ==
    /\ Len(cmds) = 2
    /\ cmds[1].name = "newsubject" /\ cmds[1].reply = "exists"
    /\ cmds[2].name = "newsubject" /\ cmds[2].reply = "created"
    /\ cmds[1].pc = "done"

\* !newsubject B and !newsubject P c d, both told "created", both listed
C2_WitnessTwoSubjects ==
    /\ Len(cmds) = 2
    /\ cmds[1].reply = "created" /\ cmds[2].reply = "created"
    /\ Listed(1) = {<<"b">>, <<"c", "_", "d">>}

(***************************************************************************)
(* C11.  !removeq with a number below 1 or above the size of the active    *)
(* subject's bank (number 1 on an empty bank included) raises nothing,     *)
(* replies that the question was not found, and leaves every bank of the   *)
(* user, in memory and in profiles.json, as it was.                        *)
(***************************************************************************)
BankIn(table, user_id, subject_key) ==
    IF subject_key \in DictKeys(SubjectsIn(table, user_id))
    THEN DictGet(SubjectsIn(table, user_id), subject_key).question_bank
    ELSE <<>>

ActiveBank(table, user_id) ==
    IF ActiveIn(table, user_id) = None THEN <<>>
    ELSE BankIn(table, user_id, ActiveIn(table, user_id)[1])

C11_RemoveOutOfRangeFails ==
    [][ (/\ ret'.op = "removeq"
         /\ ActiveIn(profiles, ret'.user_id) # None
         /\ (ret'.arg < 1 \/ ret'.arg > Len(ActiveBank(profiles, ret'.user_id))))
        => /\ ret'.raised = NoError
           /\ ret'.value = "not_found"
           /\ \A subject_key \in AllKeys :
                 BankIn(profiles', ret'.user_id, subject_key)
                     = BankIn(profiles, ret'.user_id, subject_key)
           /\ disk' = disk ]_vars

\* !removeq 0 was refused on a bank of two questions
C11_Witness ==
    /\ ret.op = "removeq" /\ ret.arg = 0 /\ ret.value = "not_found"
    /\ Len(ActiveBank(profiles, 1)) = 2

\* !removeq 3 on a bank of two questions, and !removeq 1 on an empty bank
C11_WitnessAbove ==
    /\ ret.op = "removeq" /\ ret.arg = 3 /\ ret.value = "not_found"
    /\ Len(ActiveBank(profiles, 1)) = 2

C11_WitnessEmpty ==
    /\ ret.op = "removeq" /\ ret.arg = 1 /\ ret.value = "not_found"
    /\ ActiveIn(profiles, 1) # None
    /\ ActiveBank(profiles, 1) = <<>>

(***************************************************************************)
(* C12.  !addq appends the question at the end of the active subject's     *)
(* bank, duplicates included; !removeq n with 1 <= n <= size removes the   *)
(* n-th question and keeps the others in their order; every other bank is  *)
(* unchanged by both; creating and switching subjects change no bank, and  *)
(* a new subject starts with an empty bank.                                *)
(***************************************************************************)
OtherBanksKept(user_id, subject_key) ==
    \A other \in AllKeys \ {subject_key} :
        BankIn(profiles', user_id, other) = BankIn(profiles, user_id, other)

C12_BankKeepsOrder ==
    [][ LET user_id == ret'.user_id
            before == ActiveBank(profiles, user_id)
            after == ActiveBank(profiles', user_id)
        IN  /\ (ret'.op = "addq" /\ ActiveIn(profiles, user_id) # None)
               => /\ ret'.value = "added"
                  /\ after = before \o <<ret'.arg>>
                  /\ OtherBanksKept(user_id, ActiveIn(profiles, user_id)[1])
            /\ (/\ ret'.op = "removeq" /\ ActiveIn(profiles, user_id) # None
                /\ 1 <= ret'.arg /\ ret'.arg <= Len(before))
               => /\ ret'.value = "removed"
                  /\ Len(after) = Len(before) - 1
                  /\ \A j \in 1..Len(after) :
                        after[j] = IF j < ret'.arg THEN before[j] ELSE before[j + 1]
                  /\ OtherBanksKept(user_id, ActiveIn(profiles, user_id)[1])
            /\ ret'.op \in {"create_subject", "set_active_subject"}
               => \A subject_key \in AllKeys :
                     BankIn(profiles', user_id, subject_key)
                         = BankIn(profiles, user_id, subject_key) ]_vars

\* !removeq 2 took the middle question out of a bank and left "q", "q"
C12_Witness ==
    /\ ret.op = "removeq" /\ ret.arg = 2 /\ ret.value = "removed"
    /\ ActiveBank(profiles, 1) = << <<"q">>, <<"q">> >>

\* !removeq 1 left "r" in the active bank while the other subject keeps "q"
C12_WitnessOther ==
    /\ ret.op = "removeq" /\ ret.arg = 1 /\ ret.value = "removed"
    /\ ActiveIn(profiles, 1) = Some(<<"b">>)
    /\ ActiveBank(profiles, 1) = << <<"r">> >>
    /\ BankIn(profiles, 1, <<"c", "_", "d">>) = << <<"q">> >>

(***************************************************************************)
(* C13 (as stated).  For a user without an active subject, list_files,     *)
(* get_all_lectures_with_names, get_all_practice_tests_with_names and      *)
(* save_attachment give an outcome of their own: not the empty listing or  *)
(* mapping an active subject with empty folders gives, and not the False   *)
(* of a rejected or failed upload.                                         *)
(***************************************************************************)
C13_NoActiveSubjectIsExplicit ==
    (str(1) \in DOMAIN profiles /\ ActiveIn(profiles, 1) = None)
    => /\ \A folder_type \in {"lecture", "practice"} :
             list_files(World, 1, folder_type, "none").value # {}
       /\ get_all_lectures_with_names(World, 1, "none").value # EmptyTable
       /\ get_all_practice_tests_with_names(World, 1, "none").value # EmptyTable
       /\ ret.op = "save_attachment" => ret.value # FALSE

(***************************************************************************)
(* C14 (as stated).  When the lectures folder of the active subject holds  *)
(* a document whose extraction fails and a document that is read to its    *)
(* end, get_all_lectures_with_names returns a mapping with the annotated   *)
(* text of the second and without an entry for the first.                  *)
(***************************************************************************)
LecturesOfActive(user_id) ==
    glob_pdf(World, Append(get_subject_path(user_id, ActiveIn(profiles, user_id)[1]), Lectures))

C14_FailedExtractionOmitted ==
    (/\ ActiveIn(profiles, 1) # None
     /\ \E f \in LecturesOfActive(1) : files[f].readable
     /\ \E f \in LecturesOfActive(1) : ~files[f].readable)
    => LET lectures == get_all_lectures_with_names(World, 1, "none").value IN
       \A f \in LecturesOfActive(1) :
           LET filename == stem(f[Len(f)]) IN
           IF files[f].readable
           THEN /\ filename \in DOMAIN lectures
                /\ lectures[filename] = Annotated(filename, JoinPages(files[f].pages))
           ELSE filename \notin DOMAIN lectures

(***************************************************************************)
(* C15.  A successful delete_subject(X) leaves no record, folder or file   *)
(* of X; while X's folder does not exist no file of X exists, and the      *)
(* folder comes back only through a successful create_subject(X); that     *)
(* create_subject(X) yields a subject with an empty question bank and two  *)
(* existing, empty folders.                                                *)
(***************************************************************************)
FilesUnder(fs, path) == {f \in DOMAIN fs : IsPrefix(path, f)}

DirsUnder(ds, path) == {d \in ds : IsPrefix(path, d)}

C15_DeletePurges ==
    [][ /\ (ret'.op = "delete_subject" /\ ret'.raised = NoError /\ ret'.value = TRUE)
           => LET path == get_subject_path(ret'.user_id, SubjectKey(ret'.arg)) IN
              /\ SubjectKey(ret'.arg) \notin DictKeys(SubjectsIn(profiles', ret'.user_id))
              /\ SubjectKey(ret'.arg) \notin DictKeys(SubjectsIn(load_profiles(disk'), ret'.user_id))
              /\ FilesUnder(files', path) = {}
              /\ DirsUnder(dirs', path) = {}
        /\ \A f \in DOMAIN files' : parent(f) \in dirs'
        /\ \A subject_key \in AllKeys :
              LET path == get_subject_path(1, subject_key) IN
              (DirsUnder(dirs, path) = {} /\ DirsUnder(dirs', path) # {})
              => /\ ret'.op = "create_subject" /\ ret'.value = TRUE
                 /\ ret'.user_id = 1 /\ SubjectKey(ret'.arg) = subject_key
        /\ (/\ ret'.op = "create_subject" /\ ret'.raised = NoError /\ ret'.value = TRUE
            /\ DirsUnder(dirs, get_subject_path(ret'.user_id, SubjectKey(ret'.arg))) = {})
           => LET path == get_subject_path(ret'.user_id, SubjectKey(ret'.arg)) IN
              /\ BankIn(profiles', ret'.user_id, SubjectKey(ret'.arg)) = <<>>
              /\ FilesUnder(files', path) = {}
              /\ Append(path, Lectures) \in dirs'
              /\ Append(path, PracticeTests) \in dirs' ]_vars

\* "B" was created while an upload to the "B" of before is still under way:
\* that "B" was deleted in between
C15_Witness ==
    /\ ret.op = "create_subject" /\ ret.raised = NoError /\ ret.value = TRUE
    /\ SubjectKey(ret.arg) = <<"b">>
    /\ cmds # <<>>
    /\ IsPrefix(get_subject_path(1, <<"b">>), cmds[1].file_path[1])
    /\ FilesUnder(files, get_subject_path(1, <<"c", "_", "d">>)) # {}

\* the upload to a deleted subject has failed for want of its folder
C15_WitnessUploadFails ==
    /\ ret.op = "save_attachment" /\ ret.value = FALSE
    /\ ret.arg.file_path # None
    /\ DirsUnder(dirs, get_subject_path(1, <<"b">>)) = {}
    /\ IsPrefix(get_subject_path(1, <<"b">>), ret.arg.file_path[1])

(***************************************************************************)
(* C16 (as stated).  An upload of a file whose name does not end in .pdf   *)
(* is refused with the files, the folders, the in-memory table and         *)
(* profiles.json, and so every listing, as they were.                      *)
(***************************************************************************)
C16_NonPdfChangesNothing ==
    [][ (\/ ret'.op = "upload" /\ ret'.value = "not_pdf"
         \/ /\ ret'.op = "save_attachment"
            /\ ~endswith(ret'.arg.attachment.filename, Pdf))
        => /\ files' = files
           /\ dirs' = dirs
           /\ profiles' = profiles
           /\ disk' = disk ]_vars

\* the same for save_attachment called by itself, and for the files, folders
\* and profiles.json under !upload
C16_StoreUntouched ==
    [][ (\/ ret'.op = "upload" /\ ret'.value = "not_pdf"
         \/ /\ ret'.op = "save_attachment"
            /\ ~endswith(ret'.arg.attachment.filename, Pdf))
        => /\ files' = files
           /\ dirs' = dirs
           /\ disk' = disk
           /\ ret'.op = "save_attachment" => ret'.value = FALSE /\ profiles' = profiles ]_vars

(***************************************************************************)
(* C17.  When save_attachment returns True for notes.pdf, the file of that *)
(* name in the folder it chose holds the uploaded bytes, whether or not a  *)
(* notes.pdf was there before, and "notes" is in the listing of that       *)
(* folder once: the listing has one name per file.  Every other file, in   *)
(* the same folder, in the other folder and in other subjects, keeps its   *)
(* name and bytes, and no folder or profile changes.                       *)
(***************************************************************************)
StemsIn(fs, folder_path) ==
    { stem(f[Len(f)]) : f \in { g \in DOMAIN fs : parent(g) = folder_path
                                                   /\ endswith(g[Len(g)], Pdf) } }

C18_SetActiveSubjectFrame ==
    [][ ret'.op = "set_active_subject"
        => LET user_id == ret'.user_id
               subject_key == ExpectedKey(ret'.arg)
           IN  /\ ret'.raised = NoError
               /\ ret'.value = (subject_key \in DictKeys(SubjectsIn(profiles, user_id)))
               /\ \A u \in AllUsers : SubjectsIn(profiles', u) = SubjectsIn(profiles, u)
               /\ \A u \in AllUsers \ {user_id} : ActiveIn(profiles', u) = ActiveIn(profiles, u)
               /\ ActiveIn(profiles', user_id) =
                      IF ret'.value THEN Some(subject_key) ELSE ActiveIn(profiles, user_id)
               /\ ret'.value => load_profiles(disk') = profiles'
               /\ dirs' = dirs
               /\ files' = files ]_vars

\* "B" was made active: the user's first subject, which became active when it
\* was created, is "c d"
C18_Witness ==
    /\ ret.op = "set_active_subject" /\ ret.value = TRUE /\ ret.arg = <<"B">>
    /\ ActiveIn(profiles, 1) = Some(<<"b">>)
    /\ SubjectsIn(profiles, 1)[1].k = <<"c", "_", "d">>
    /\ DictGet(SubjectsIn(profiles, 1), <<"b">>).name = <<"b">>

\* an unknown subject was refused and the active subject stays
C18_WitnessUnknown ==
    /\ ret.op = "set_active_subject" /\ ret.value = FALSE /\ ret.arg = <<"c", " ", "d">>
    /\ ActiveIn(profiles, 1) = Some(<<"b">>)

(***************************************************************************)
(* C19 (as stated).  Every subject's key is its display name lowercased    *)
(* with each whitespace character replaced by an underscore, and           *)
(* create_subject, set_active_subject and delete_subject find a subject    *)
(* under any display name that has this key: names that differ in letter   *)
(* case or in the kind of whitespace are one subject.                      *)
(***************************************************************************)
Whitespace == {" ", "\t", "\n", "\r", "\f"}

\* the key the rule of the specification gives
WhitespaceKey(display_name) ==
    [i \in DOMAIN display_name |->
        IF display_name[i] \in Whitespace THEN "_" ELSE LowerChar(display_name[i])]

C19_KeyFoldsCaseAndWhitespace ==
    /\ \A i \in DOMAIN SubjectsIn(profiles, 1) :
          SubjectsIn(profiles, 1)[i].k = WhitespaceKey(SubjectsIn(profiles, 1)[i].v.name)
    /\ \A i, j \in DOMAIN SubjectsIn(profiles, 1) :
          WhitespaceKey(SubjectsIn(profiles, 1)[i].v.name)
              = WhitespaceKey(SubjectsIn(profiles, 1)[j].v.name) => i = j
    /\ (ret.op \in {"set_active_subject", "delete_subject"} /\ ret.value = FALSE)
       => \A i \in DOMAIN SubjectsIn(profiles, 1) :
             WhitespaceKey(SubjectsIn(profiles, 1)[i].v.name) # WhitespaceKey(ret.arg)

\* what the code does keep: one subject per name up to letter case, and the
\* same key in the three methods
C19_KeyFoldsCaseAndSpaces ==
    /\ \A i \in DOMAIN SubjectsIn(profiles, 1) :
          SubjectsIn(profiles, 1)[i].k = SubjectKey(SubjectsIn(profiles, 1)[i].v.name)
    /\ \A i, j \in DOMAIN SubjectsIn(profiles, 1) :
          SubjectsIn(profiles, 1)[i].k = SubjectsIn(profiles, 1)[j].k => i = j
    /\ (ret.op \in {"set_active_subject", "delete_subject"} /\ ret.value = FALSE)
       => SubjectKey(ret.arg) \notin DictKeys(SubjectsIn(profiles, 1))
    /\ (ret.op = "create_subject" /\ ret.value = TRUE)
       => SubjectKey(ret.arg) \in DictKeys(SubjectsIn(profiles, 1))

(***************************************************************************)
(* C20.  While a user has an active subject, the mapping returned by       *)
(* get_all_lectures_with_names (resp. get_all_practice_tests_with_names)   *)
(* has one key for each document stored in the lectures (resp.             *)
(* practice_tests) folder of that subject and no other key; the text under *)
(* key n begins with "[SOURCE: n]" and continues with what is extracted    *)
(* from the file n.pdf of that folder, not from a file of the same name in *)
(* the other folder or in another subject.                                 *)
(***************************************************************************)
Header(n) == <<"[SOURCE: ">> \o n \o <<"]">>

BeginsWith(text, prefix) ==
    Len(text) >= Len(prefix) /\ SubSeq(text, 1, Len(prefix)) = prefix

\* the names of the documents stored in one folder of a subject
StoredIn(user_id, key, folder) ==
    { stem(f[4]) : f \in { g \in DOMAIN files : /\ Len(g) = 4
                                                /\ g[1] = str(user_id)
                                                /\ g[2] = key
                                                /\ g[3] = folder } }

MaterialsAre(materials, user_id, key, folder) ==
    /\ DOMAIN materials = StoredIn(user_id, key, folder)
    /\ \A n \in DOMAIN materials :
          /\ BeginsWith(materials[n], Header(n))
          /\ materials[n] = Header(n) \o <<"\n">> \o
                extract_text_from_pdf(files[<<str(user_id), key, folder, n \o <<Pdf>>>>])

C20_MaterialsOfActiveSubjectOnly ==
    ActiveIn(profiles, 1) # None
    => /\ MaterialsAre(get_all_lectures_with_names(World, 1, "none").value,
                       1, ActiveIn(profiles, 1)[1], Lectures)
       /\ MaterialsAre(get_all_practice_tests_with_names(World, 1, "none").value,
                       1, ActiveIn(profiles, 1)[1], PracticeTests)

\* cell.pdf is a lecture of the active subject, another subject holds a
\* document of another name, and the lectures mapping has the key "cell" only
C20_Witness ==
    /\ ActiveIn(profiles, 1) # None
    /\ StoredIn(1, ActiveIn(profiles, 1)[1], Lectures) = { stem(CellPdf) }
    /\ \E i \in DOMAIN SubjectsIn(profiles, 1) :
          /\ SubjectsIn(profiles, 1)[i].k # ActiveIn(profiles, 1)[1]
          /\ StoredIn(1, SubjectsIn(profiles, 1)[i].k, Lectures) = { stem(NotesPdf) }
    /\ DOMAIN get_all_lectures_with_names(World, 1, "none").value = { stem(CellPdf) }
    /\ BeginsWith(get_all_lectures_with_names(World, 1, "none").value[stem(CellPdf)],
                  Header(stem(CellPdf)))
    /\ get_all_practice_tests_with_names(World, 1, "none").value = EmptyTable

\* the same file name in both subjects with different contents: the mapping
\* holds the text of the active subject's file
C20_WitnessSameName ==
    /\ ActiveIn(profiles, 1) # None
    /\ \E i \in DOMAIN SubjectsIn(profiles, 1) :
          LET k == SubjectsIn(profiles, 1)[i].k
              a == ActiveIn(profiles, 1)[1]
          IN  /\ k # a
              /\ <<str(1), k, Lectures, NotesPdf>> \in DOMAIN files
              /\ <<str(1), a, Lectures, NotesPdf>> \in DOMAIN files
              /\ files[<<str(1), k, Lectures, NotesPdf>>]
                    # files[<<str(1), a, Lectures, NotesPdf>>]

(***************************************************************************)
(* C21.  In every reachable state, for each user, active_subject is None   *)
(* exactly when the user has no subjects; list_subjects returns one entry  *)
(* per subject, exactly one of them marked active when there is at least   *)
(* one subject, and no entry otherwise.                                    *)
(***************************************************************************)
MarkedActive(listing) == { i \in DOMAIN listing : listing[i].active }

C21_ActiveNoneIffNoSubjects ==
    \A u \in AllUsers :
        /\ (ActiveIn(profiles, u) = None) <=> (SubjectsIn(profiles, u) = <<>>)
        /\ LET listing == list_subjects(World, u, "none").value IN
           /\ Len(listing) = Len(SubjectsIn(profiles, u))
           /\ Cardinality(MarkedActive(listing))
                 = (IF SubjectsIn(profiles, u) = <<>> THEN 0 ELSE 1)

\* the active one of two subjects was deleted: the other one is active now
\* and is the one entry marked in the listing
C21_Witness ==
    /\ ret.op = "delete_subject" /\ ret.raised = NoError /\ ret.value = TRUE
    /\ Len(SubjectsIn(profiles, ret.user_id)) = 1
    /\ SubjectKey(ret.arg) \notin DictKeys(SubjectsIn(profiles, ret.user_id))
    /\ ActiveIn(profiles, ret.user_id) = Some(SubjectsIn(profiles, ret.user_id)[1].k)
    /\ MarkedActive(list_subjects(World, ret.user_id, "none").value) = {1}

\* the last subject was deleted: nothing is active and the listing is empty
C21_WitnessLast ==
    /\ ret.op = "delete_subject" /\ ret.raised = NoError /\ ret.value = TRUE
    /\ str(ret.user_id) \in DOMAIN profiles
    /\ SubjectsIn(profiles, ret.user_id) = <<>>
    /\ ActiveIn(profiles, ret.user_id) = None
    /\ list_subjects(World, ret.user_id, "none").value = <<>>

(***************************************************************************)
(* C22 (as stated).  A document (user, subject, folder, file name) has at  *)
(* most one writer at a time: no two calls of save_attachment are inside   *)
(* attachment.save for the same path at once, and a stored file holds the  *)
(* bytes of one upload.                                                    *)
(***************************************************************************)
\* the positions in cmds of the calls suspended in attachment.save(file_path)
Writers(file_path) ==
    { i \in DOMAIN cmds : /\ cmds[i].name = "save_attachment"
                          /\ cmds[i].pc = "save"
                          /\ cmds[i].file_path = Some(file_path) }

WriterPaths == { cmds[i].file_path[1] : i \in DOMAIN cmds }

C22_OneWriterPerDocument ==
    /\ \A file_path \in WriterPaths : Cardinality(Writers(file_path)) <= 1
    /\ \A f \in DOMAIN files : files[f] \in {Bytes1, Bytes2}

(***************************************************************************)
(* C24 (as stated).  When a !newsubject command replies "Created new       *)
(* subject ... This is now your active subject!", the subject it created   *)
(* is the user's active subject, both when the reply is decided and when   *)
(* the command completes.                                                  *)
(***************************************************************************)
\* the display name new_subject passes to create_subject
CreatedName(c) == IF c.subject_name = <<>> THEN c.game ELSE c.subject_name

ReportsCreated(i) ==
    /\ i \in DOMAIN cmds /\ i \in DOMAIN cmds'
    /\ cmds'[i].name = "newsubject" /\ cmds'[i].reply = "created"
    /\ \/ cmds[i].pc = "start" /\ cmds'[i].pc = "send"
       \/ cmds[i].pc = "send" /\ cmds'[i].pc = "done"

C24_CreatedSubjectIsActive ==
    [][ \A i \in 1..NumCmds :
            ReportsCreated(i)
            => ActiveIn(profiles', cmds'[i].user_id) = Some(SubjectKey(CreatedName(cmds'[i]))) ]_vars

(***************************************************************************)
(* C23 (as stated).  A start that finds a profiles.json it cannot parse    *)
(* reports a failure, unlike a start that finds a parsable file; it does   *)
(* not go on with an empty table, and the call after such a start does not *)
(* write a new profiles.json over the file that was found.                 *)
(***************************************************************************)
C23_CorruptDataReportedAtStartup ==
    [][ /\ (ret'.op = "restart" /\ ~disk.valid)
           => /\ ret'.raised # NoError
              /\ profiles' # EmptyTable
        /\ (ret.op = "restart" /\ ~disk.valid) => disk' = disk ]_vars

(***************************************************************************)
(* C25 (as stated).  The file of an !upload command goes to a folder of    *)
(* the subject that was active when the command started, the one named in  *)
(* its "Uploading ... to" reply, also when the user's active subject was   *)
(* changed while the command was suspended in the ctx.send of that reply.  *)
(***************************************************************************)
C25_UploadGoesToAnnouncedSubject ==
    [][ \A i \in DOMAIN cmds :
            (/\ cmds[i].name = "upload" /\ cmds[i].pc = "announce"
             /\ i \in DOMAIN cmds'
             /\ cmds'[i].name = "save_attachment")
            => LET file_path == cmds'[i].file_path[1] IN
               /\ file_path[1] = str(cmds[i].user_id)
               /\ file_path[2] = SubjectKey(cmds[i].subject) ]_vars

(***************************************************************************)
(* C26 (as stated).  delete_subject(X) changes nothing but X, whatever the *)
(* name: when it returns False nothing changes; when it returns True and X *)
(* was not the active subject, active_subject stays; in every case each    *)
(* other subject of the user and each subject of every other user keeps    *)
(* its record with its question bank, its two folders and its stored       *)
(* documents.                                                              *)
(***************************************************************************)
\* the record stored for a user's key, None when there is none
RecordIn(table, user_id, key) ==
    LET subjects == SubjectsIn(table, user_id) IN
    IF key \in DictKeys(subjects) THEN Some(DictGet(subjects, key)) ELSE None

\* the documents of a subject: the files in its two folders, with their bytes
DocumentsIn(fs, user_id, key) ==
    LET found == { f \in DOMAIN fs :
                     \E folder \in {Lectures, PracticeTests} :
                        parent(f) = Append(get_subject_path(user_id, key), folder) }
    IN  [f \in found |-> fs[f]]

FoldersIn(ds, user_id, key) ==
    { folder \in {Lectures, PracticeTests} :
        Append(get_subject_path(user_id, key), folder) \in ds }

KeysOfAllUsers == UNION { DictKeys(SubjectsIn(profiles, u)) : u \in AllUsers }

C26_DeleteRemovesOnlyItsSubject ==
    [][ (ret'.op = "delete_subject" /\ ret'.raised = NoError)
        => LET user_id == ret'.user_id
               subject_key == SubjectKey(ret'.arg)
           IN  /\ ret'.value = FALSE
                  => /\ \A u \in AllUsers :
                            /\ SubjectsIn(profiles', u) = SubjectsIn(profiles, u)
                            /\ ActiveIn(profiles', u) = ActiveIn(profiles, u)
                     /\ dirs' = dirs /\ files' = files
               /\ (ret'.value = TRUE /\ ActiveIn(profiles, user_id) # Some(subject_key))
                  => ActiveIn(profiles', user_id) = ActiveIn(profiles, user_id)
               /\ \A u \in AllUsers, k \in KeysOfAllUsers :
                     (k \in DictKeys(SubjectsIn(profiles, u)) /\ <<u, k>> # <<user_id, subject_key>>)
                     => /\ RecordIn(profiles', u, k) = RecordIn(profiles, u, k)
                        /\ FoldersIn(dirs', u, k) = FoldersIn(dirs, u, k)
                        /\ DocumentsIn(files', u, k) = DocumentsIn(files, u, k) ]_vars

(***************************************************************************)
(* C27 (as stated).  A !deletesubject command that replies "Cancelled      *)
(* deletion." or "Timed out. Deletion cancelled." has changed nothing: the *)
(* subjects, the active subject, the folders and the files are what they   *)
(* were before it handled the answer.  A subject leaves the table only in  *)
(* the step of a !deletesubject command whose answer was "yes".            *)
(***************************************************************************)
\* command i handles the answer (or the timeout) in this step
Answers(i) ==
    /\ i \in DOMAIN cmds /\ i \in DOMAIN cmds'
    /\ cmds[i].name = "deletesubject"
    /\ cmds[i].pc = "wait" /\ cmds'[i].pc = "send"

C27_CancelledDeletionChangesNothing ==
    [][ /\ \A i \in 1..NumCmds :
              (Answers(i) /\ cmds'[i].reply \in {"cancelled", "timed_out"})
              => /\ SubjectsIn(profiles', 1) = SubjectsIn(profiles, 1)
                 /\ ActiveIn(profiles', 1) = ActiveIn(profiles, 1)
                 /\ dirs' = dirs
                 /\ files' = files
        /\ (\E k \in DictKeys(SubjectsIn(profiles, 1)) :
                k \notin DictKeys(SubjectsIn(profiles', 1)))
           => \E i \in 1..NumCmds :
                 /\ Answers(i)
                 /\ cmds'[i].content # None
                 /\ lower(cmds'[i].content[1]) = Yes ]_vars

====
